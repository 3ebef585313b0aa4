-------------------------------- MODULE Config --------------------------------
(***************************************************************************)
(* The start of the server up to its servers: the configuration file, read *)
(* line by line into the reader's database, the settings taken from it or  *)
(* from the defaults, and the servers that TrisDb creates for them.        *)
(***************************************************************************)
EXTENDS Reader

CONSTANTS
  Lines,     \* the lines that files are made of
  MaxLines,  \* bound: the lines of a file
  atoi,      \* atoi[s]: the number that s begins with, or 0
  Defaults,  \* the setting of each key, unless the file has one
  Paths      \* the names of files

Keys == {"listen", "port", "unixsocket", "loglevel", "logfile", "dbfolder"}

(* The order in which loadFromFile asks for them.                          *)
KeyOrder == <<"listen", "port", "unixsocket", "loglevel", "logfile", "dbfolder">>

(* Instead of the lines of a file that cannot be opened.                   *)
Missing == <<<<"missing">>>>

(* Instead of the lines of a stream that opens and cannot be read, as a    *)
(* directory does: the loop finds an empty line again and again, never the *)
(* end of the file, and no step leads out of it.                           *)
Unreadable == <<<<"unreadable">>>>

Files(n) == BoundedSeq(Lines, n)

ASSUME LinesAssumption ==
  \A raw \in Lines :
    raw \in Seq(ToSet(raw)) /\ ToSet(Visible(raw)) \ {"="} \subseteq DOMAIN toLower
ASSUME toLowerAssumption ==
  \A s \in DOMAIN toLower : toLower[s] \in WHITE_SPACE <=> s \in WHITE_SPACE
ASSUME MaxLinesAssumption == MaxLines \in Nat
ASSUME FilesAssumption == {Missing, Unreadable} \cap Files(MaxLines) = {}
ASSUME DefaultsAssumption == Defaults \in [Keys -> {Defaults[k] : k \in Keys}]

VARIABLES
  file,       \* the lines of the file that --config names
  read,       \* how many of its lines were taken from the stream
  lineNumber, \* the number of the line to come
  keyValues,  \* Reader::_keyValues, from keys to values and their lines
  error,      \* the ReaderError thrown: what it says, and of which lines
  settings,   \* Config::settings
  name,       \* Config::name: "default" or the path of the file
  servers,    \* TrisDb::_servers, by kind, with the address of each
  stage       \* options, open, read, apply, error, create or run

readerVars == <<file, read, lineNumber, keyValues, error>>
configVars == <<settings, name>>
vars == <<readerVars, configVars, servers, stage>>

ReaderError(what, line, earlier) == [what |-> what, line |-> line, earlier |-> earlier]
NoError == ReaderError("", 0, 0)

(* What each line is, looked up once.                                      *)
BlankLines == {raw \in Lines : IsBlank(raw)}
DefinitionsOf == [raw \in Lines |-> Definitions(raw)]

NoValues == [k \in {} |-> ""]

-----------------------------------------------------------------------------
(* init() of main: without --config the defaults are used.                 *)
loadDefaults ==
  /\ settings' = Defaults
  /\ name' = "default"

UseDefaults ==
  /\ stage = "options"
  /\ loadDefaults
  /\ stage' = "create"
  /\ UNCHANGED <<readerVars, servers>>

loadFromFile(path) ==
  /\ stage = "options"
  /\ settings' = Defaults
  /\ name' = path
  /\ stage' = "open"
  /\ UNCHANGED <<readerVars, servers>>

-----------------------------------------------------------------------------
(* Reader::readSettingsFile.                                               *)
ThrowError(what, line, earlier) ==
  /\ error' = ReaderError(what, line, earlier)
  /\ stage' = "error"

OpenFile ==
  /\ stage = "open"
  /\ file' \in {Missing, Unreadable} \cup Files(MaxLines)
  /\ keyValues' = NoValues
  /\ lineNumber' = 1
  /\ IF file' = Missing THEN ThrowError("open", 0, 0)
                        ELSE stage' = "read" /\ UNCHANGED error
  /\ UNCHANGED <<read, configVars, servers>>

NextLine == file[read + 1]

getline ==
  /\ stage = "read" /\ read < Len(file) /\ file # Unreadable
  /\ read' = read + 1
  /\ UNCHANGED <<file, configVars, servers>>

(* Mutant of ReadBlank: the loop goes on without the next line.            *)
ReadBlankAgain ==
  /\ stage = "read" /\ read < Len(file)
  /\ NextLine \in BlankLines
  /\ UNCHANGED vars

(* Mutant of ReadBlank: a line that is skipped does not count.             *)
ReadBlankUncounted ==
  /\ getline
  /\ NextLine \in BlankLines
  /\ UNCHANGED <<lineNumber, keyValues, error, stage>>

ReadBlank ==
  /\ getline
  /\ NextLine \in BlankLines
  /\ lineNumber' = lineNumber + 1
  /\ UNCHANGED <<keyValues, error, stage>>

ReadBad ==
  /\ getline
  /\ NextLine \notin BlankLines /\ DefinitionsOf[NextLine] = {}
  /\ ThrowError("bad value", lineNumber, 0)
  /\ UNCHANGED <<lineNumber, keyValues>>

containsKey(key) == key \in DOMAIN keyValues

getLineNumberByKey(key) == keyValues[key].line

(* Keys are lowered before they are compared.  The program names no valid  *)
(* keys, so that all keys are.                                             *)
ReadPair ==
  /\ getline
  /\ \E d \in DefinitionsOf[NextLine] :
       IF containsKey(d.key)
         THEN /\ ThrowError("multiple", lineNumber, getLineNumberByKey(d.key))
              /\ UNCHANGED <<lineNumber, keyValues>>
         ELSE /\ keyValues' = [key \in DOMAIN keyValues \cup {d.key} |->
                                 IF key = d.key THEN [line |-> lineNumber, val |-> d.value]
                                                ELSE keyValues[key]]
              /\ lineNumber' = lineNumber + 1
              /\ UNCHANGED <<error, stage>>

EndOfFile ==
  /\ stage = "read" /\ read = Len(file) /\ file # Unreadable
  /\ stage' = "apply"
  /\ UNCHANGED <<readerVars, configVars, servers>>

(* Keys are single words.                                                  *)
getValueByKey(k) == parseValue(keyValues[<<k>>].val)

BadKeys == {k \in Keys : containsKey(<<k>>) /\ getValueByKey(k) = {}}

(* The settings with the values of some keys, where the file has them.     *)
WithSettings(keys) ==
  [k \in Keys |-> IF k \in keys /\ containsKey(<<k>>)
                    THEN CHOOSE value \in getValueByKey(k) : TRUE
                    ELSE settings[k]]

(* Mutant of Apply: every key of the file becomes a setting.               *)
ApplyAll ==
  /\ stage = "apply" /\ BadKeys = {}
  /\ settings' = [key \in {keys[1] : keys \in DOMAIN keyValues} |-> keyValues[<<key>>].val]
                   @@ settings
  /\ stage' = "create"
  /\ UNCHANGED <<readerVars, name, servers>>

(* Of what the file has, the six keys of the program.                      *)
Apply ==
  /\ stage = "apply" /\ BadKeys = {}
  /\ settings' = WithSettings(Keys)
  /\ stage' = "create"
  /\ UNCHANGED <<readerVars, name, servers>>

(* The error in the middle: the keys before the bad one are in force.      *)
ApplyFails ==
  /\ stage = "apply" /\ BadKeys # {}
  /\ LET bad == SelectInSeq(KeyOrder, LAMBDA k : k \in BadKeys) IN
       /\ settings' = WithSettings({KeyOrder[i] : i \in 1..(bad - 1)})
       /\ ThrowError("value", getLineNumberByKey(<<KeyOrder[bad]>>), 0)
  /\ UNCHANGED <<file, read, lineNumber, keyValues, name, servers>>

(* Mutant of CatchError: what was set before the error stays.              *)
CatchErrorLate ==
  /\ stage = "error"
  /\ name' = "default"
  /\ stage' = "create"
  /\ UNCHANGED <<readerVars, settings, servers>>

(* The ReaderError is caught.                                              *)
CatchError ==
  /\ stage = "error"
  /\ loadDefaults
  /\ stage' = "create"
  /\ UNCHANGED <<readerVars, servers>>

-----------------------------------------------------------------------------
(* The port of an endpoint: 16 bits of what atoi makes of the setting.     *)
PortOf(value) == atoi[value] % 65536

getSetting(k) == settings[k]

(* The acceptor binds to every interface.                                  *)
TcpServer(port) == [kind |-> "tcp", interface |-> "any", at |-> PortOf(port)]
UnixSocketServer(path) == [kind |-> "unix", path |-> path]

(* TrisDb::TrisDb.                                                         *)
TcpServers ==
  IF getSetting("port") = <<"0">> THEN {} ELSE {TcpServer(getSetting("port"))}

UnixSocketServers ==
  IF getSetting("unixsocket") = <<"no">> THEN {}
  ELSE {UnixSocketServer(getSetting("unixsocket"))}

addServers(those) == servers' = servers \cup those

Create ==
  /\ stage = "create"
  /\ addServers(TcpServers \cup UnixSocketServers)
  /\ stage' = "run"
  /\ UNCHANGED <<readerVars, configVars>>

Init ==
  /\ file = <<>>
  /\ read = 0
  /\ lineNumber = 0
  /\ error = NoError
  /\ keyValues = NoValues
  /\ settings = NoValues
  /\ name = ""
  /\ servers = {}
  /\ stage = "options"

ReadOn ==
  \/ OpenFile
  \/ ReadBlank
  \/ ReadBad
  \/ ReadPair
  \/ EndOfFile
  \/ Apply
  \/ ApplyFails
  \/ CatchError
  \/ Create

Next == UseDefaults \/ (\E path \in Paths : loadFromFile(path)) \/ ReadOn

Spec == Init /\ [][Next]_vars

-----------------------------------------------------------------------------
Values == {Defaults[k] : k \in Keys}
            \cup UNION {{d.value : d \in DefinitionsOf[raw]} : raw \in Lines}

(* What the reader collects are definitions of its lines, and the settings *)
(* are exactly the six once they are loaded.                               *)
TypeOK ==
  /\ file \in {Missing, Unreadable} \/ (ToSet(file) \subseteq Lines /\ Len(file) <= MaxLines)
  /\ read \in 0..Len(file) /\ lineNumber \in 0..(MaxLines + 1)
  /\ \A key \in DOMAIN keyValues :
       /\ keyValues[key].line \in 1..read
       /\ \E raw \in Lines : [key |-> key, value |-> keyValues[key].val] \in DefinitionsOf[raw]
  /\ settings = NoValues \/ settings \in [Keys -> Values]
  /\ name \in {"", "default"} \cup Paths

(* What the lines of the file define a key to be.                          *)
Says(k) == UNION {{d.value : d \in {e \in DefinitionsOf[file[i]] : e.key = <<k>>}} :
                    i \in DOMAIN file}

(* A file counts as a whole or not at all: the settings are those that its *)
(* lines name, whatever the case they are written in, and the defaults for *)
(* others, or an error in some line leaves the defaults alone in force,    *)
(* and the name says so.                                                   *)
WholeFileOrDefaults ==
  stage \in {"create", "run"} =>
    \/ settings = Defaults /\ name = "default"
    \/ /\ name \in Paths
       /\ \A k \in Keys : Says(k) \subseteq {settings[k]}
       /\ \A k \in Keys : Says(k) = {} => settings[k] = Defaults[k]

Faulty(i) == file[i] \notin BlankLines /\ DefinitionsOf[file[i]] = {}

SameKey(i, j) ==
  \E d \in DefinitionsOf[file[i]], e \in DefinitionsOf[file[j]] : d.key = e.key

(* However many comments and empty lines precede it, an error names the    *)
(* line of the file that is at fault, the first such line, and the one     *)
(* that it contradicts.                                                    *)
ErrorNamesItsLine ==
  stage = "error" /\ error.what # "open" =>
    /\ error.line \in DOMAIN file
    /\ error.what = "bad value" => Faulty(error.line)
    /\ error.what = "multiple" =>
         error.earlier < error.line /\ SameKey(error.earlier, error.line)
    /\ error.what = "value" =>
         \E d \in DefinitionsOf[file[error.line]] : parseValue(d.value) = {}
    /\ error.what # "value" =>
         \A i \in 1..(error.line - 1) :
           ~Faulty(i) /\ \A j \in 1..(i - 1) : ~SameKey(i, j)
=============================================================================
