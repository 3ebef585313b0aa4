--------------------------------- MODULE Main ---------------------------------
(***************************************************************************)
(* The program from its command line to the mode it runs in: main parses   *)
(* the arguments, init looks for the options in an order of its own, and a *)
(* server takes its settings from the file that was named or from the      *)
(* defaults.                                                               *)
(***************************************************************************)
EXTENDS Config, Options

CONSTANTS
  Named,      \* the paths of configuration files that somebody means
  Sockets,    \* paths of sockets
  to_string,  \* to_string[t]: how the int that is read from t is written
  Loose,      \* the arguments of command lines that nobody meant
  MaxLoose,   \* bound: the arguments of such a line
  MaxOptions  \* bound: the options of a line that somebody meant

VARIABLES
  meant,  \* the options that the user means, or NoMeaning
  mode    \* what the process does

cmdline == <<argv, options, meant>>
mainvars == <<vars, cmdline, mode>>

Mode(what, by, at) == [what |-> what, by |-> by, at |-> at]
Does(what) == Mode(what, "", "")

-----------------------------------------------------------------------------
Meanings ==
  {[l |-> l, args |-> <<>>] : l \in {"shell", "benchmark", "version", "help"}}
    \cup {[l |-> "config", args |-> <<path>>] : path \in Named}
    \cup {[l |-> "port", args |-> <<number>>] : number \in Numbers}
    \cup {[l |-> "socket", args |-> <<path>>] : path \in Sockets}

NoMeaning == <<[l |-> "none", args |-> <<>>]>>

Letter(option) == TheOption(option.l).s

Plains(texts) == [i \in DOMAIN texts |-> Plain(texts[i])]

(* An option is its long name, with an argument behind it or behind an     *)
(* equals sign, or its letter; two letters may share a dash, if the first  *)
(* takes no argument.                                                      *)
Spellings(option) ==
  {<<Long(option.l, "")>> \o Plains(option.args)}
    \cup {<<Long(option.l, text)>> : text \in ToSet(option.args)}
    \cup {<<Short(<<letter>>)>> \o Plains(option.args) : letter \in {Letter(option)} \ {""}}

Groups(first, second) ==
  IF first.args # <<>> THEN {}
  ELSE {<<Short(letters)>> \o Plains(second.args) :
          letters \in ({Letter(first)} \ {""}) \X ({Letter(second)} \ {""})}

CommandLines(list) ==
  LET upTo[n \in 0..Len(list)] ==
        IF n = 0 THEN {<<>>}
        ELSE {a \o b : a \in upTo[n - 1], b \in Spellings(list[n])}
               \cup IF n = 1 THEN {}
                    ELSE {a \o b : a \in upTo[n - 2], b \in Groups(list[n - 1], list[n])}
  IN upTo[Len(list)]

MainInit ==
  /\ Init
  /\ options = NoOptions
  /\ mode = Does("start")
  /\ \/ /\ meant \in SeqOf(Meanings, MaxOptions)
        /\ argv \in CommandLines(meant)
     \/ /\ meant = NoMeaning
        /\ argv \in SeqOf(Loose, MaxLoose)

-----------------------------------------------------------------------------
ReadArgument ==
  /\ mode = Does("start")
  /\ ParseArgument
  /\ UNCHANGED <<vars, meant, mode>>

(* main catches what the parser throws, and returns 1.                     *)
Fail ==
  /\ mode = Does("start") /\ options.error # ""
  /\ mode' = Does("fail")
  /\ UNCHANGED <<vars, cmdline>>

(* init decides; nobody looks at the options after it.                     *)
Decide(what) ==
  /\ mode = Does("start") /\ IsParsed
  /\ mode' = what
  /\ argv' = <<>> /\ options' = NoOptions /\ meant' = NoMeaning

Given(l) == count(l) > 0

NoneOf(longs) == \A l \in longs : ~Given(l)

Help ==
  /\ Given("help")
  /\ Decide(Does("help"))
  /\ UNCHANGED vars

Version ==
  /\ Given("version") /\ NoneOf({"help"})
  /\ Decide(Does("version"))
  /\ UNCHANGED vars

shell(by, at) == Mode("shell", by, at)

Address ==
  CASE Given("port") -> shell("port", to_string[as("port")])
    [] Given("socket") /\ ~Given("port") -> shell("socket", as("socket"))
    [] OTHER -> shell("port", "1205")

StartShell ==
  /\ Given("shell") /\ NoneOf({"help", "version"})
  /\ Decide(Address)
  /\ UNCHANGED vars

(* A database of its own, with the defaults, that is filled, read and      *)
(* deleted.                                                                *)
Benchmark ==
  /\ Given("benchmark") /\ NoneOf({"help", "version", "shell"})
  /\ Decide(Does("benchmark"))
  /\ loadDefaults
  /\ UNCHANGED <<readerVars, servers, stage>>

StartServer ==
  /\ NoneOf({"help", "version", "shell", "benchmark"})
  /\ Decide(Does("server"))
  /\ IF Given("config") THEN loadFromFile(as("config")) ELSE UseDefaults

RunServer == mode = Does("server") /\ ReadOn /\ UNCHANGED <<cmdline, mode>>

MainNext ==
  ReadArgument \/ Fail \/ Help \/ Version \/ StartShell \/ Benchmark \/ StartServer \/ RunServer

MainSpec == MainInit /\ [][MainNext]_mainvars /\ WF_mainvars(MainNext)

-----------------------------------------------------------------------------
LastArgument(l, default) ==
  LET those == SelectSeq(meant, LAMBDA option : option.l = l) IN
  IF those = <<>> THEN default ELSE those[Len(those)].args[1]

Means(l) == \E i \in DOMAIN meant : meant[i].l = l

Meaning ==
  CASE Means("help") -> Does("help")
    [] Means("version") /\ ~Means("help") -> Does("version")
    [] Means("shell") /\ ~Means("help") /\ ~Means("version") ->
         IF Means("socket") /\ ~Means("port") THEN shell("socket", LastArgument("socket", ""))
         ELSE IF Means("port") THEN shell("port", to_string[LastArgument("port", "")])
         ELSE shell("port", "1205")
    [] Means("benchmark") /\ ~\E l \in {"help", "version", "shell"} : Means(l) ->
         Does("benchmark")
    [] OTHER -> Does("server")

(* However a command line is spelled, with long names or letters, equals   *)
(* signs or groups, and with every option as often as one likes, it is     *)
(* accepted and does what it means: the last of several arguments counts,  *)
(* a port goes to the shell as the number that it is, and a server reads   *)
(* the file that was named, or none.                                       *)
CommandLineObeyed ==
  [][mode' # mode /\ meant # NoMeaning =>
       /\ mode' = Meaning
       /\ mode' = Does("server") => name' = LastArgument("config", "default")]_mainvars

(* Every start ends: in a mode, and for a server with its servers, from    *)
(* the file or in spite of it, unless the file opens and cannot be read.   *)
StartEnds ==
  <>(mode # Does("start") /\ (mode = Does("server") => stage = "run" \/ file = Unreadable))
=============================================================================
