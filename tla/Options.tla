------------------------------- MODULE Options -------------------------------
(***************************************************************************)
(* cxxopts, as the program uses it: the options that main declares, none   *)
(* of them with a default or an implicit value and none positional, and    *)
(* the reading of the command line, one argument at a time.                *)
(***************************************************************************)
EXTENDS Integers, SequencesExt

CONSTANT Numbers  \* the texts that an int can be read from, to their end

(* An argument by what the regular expression option_matcher makes of it.  *)
(* What follows the equals sign of a long option is a text, "" for none.   *)
Plain(text) == [kind |-> "plain", text |-> text]
Long(name, text) == [kind |-> "long", name |-> name, text |-> text]
Short(letters) == [kind |-> "short", letters |-> letters]

(* An argument as it was written.                                          *)
Text(arg) ==
  CASE arg.kind = "plain" -> arg.text
    [] arg.kind = "long" ->
         "--" \o arg.name \o (IF arg.text = "" THEN "" ELSE "=" \o arg.text)
    [] OTHER -> FoldLeft(LAMBDA text, letter : text \o letter, "-", arg.letters)

VARIABLES argv,    \* the arguments behind the name of the program
          options  \* how far they were read, and what was made of them

(* option_specifier: a letter and a comma, or neither, before a long name.  *)
Specified(opts) ==
  IF SubSeq(opts, 2, 2) = "," THEN [s |-> SubSeq(opts, 1, 1), l |-> SubSeq(opts, 3, Len(opts))]
                              ELSE [s |-> "", l |-> opts]

(* What main declares: the names, the description, what kind of value, the *)
(* name of the argument in the help, and the group.                        *)
Declare(group, opts, desc, type, arg_help) ==
  Specified(opts) @@ [type |-> type, arg_help |-> arg_help, desc |-> desc, group |-> group]

Declared ==
  <<Declare("", "c,config", "configuration file", "string", "FILE"),
    Declare("", "s,shell", "start command-line shell", "bool", ""),
    Declare("", "b,benchmark", "start benchmark utility", "bool", ""),
    Declare("", "v,version", "print version number", "bool", ""),
    Declare("", "h,help", "print help", "bool", ""),
    Declare("Shell", "port", "Tcp port", "int", "PORT"),
    Declare("Shell", "socket", "Unix socket", "string", "FILE")>>

Names == {Declared[o].l : o \in DOMAIN Declared}

(* Both names of an option lead to the same OptionDetails, and with it to  *)
(* one count.                                                              *)
Find(name) == {o \in DOMAIN Declared : name \in {Declared[o].s, Declared[o].l}}
TheOption(name) == Declared[CHOOSE o \in Find(name) : TRUE]

(* No declaration throws: every long name has two characters, and no name  *)
(* is there already.                                                       *)
ASSUME DeclarationsAreValid ==
  \A o \in DOMAIN Declared :
    /\ Len(Declared[o].l) > 1
    /\ \A name \in {Declared[o].s, Declared[o].l} \ {""} : Find(name) = {o}

(* The option that takes the arguments that are none; main names none.     *)
Positional == ""

has_arg(option) == option.type # "bool"

NoOptions ==
  [current |-> 1, kept |-> <<>>, error |-> "",
   count |-> [l \in Names |-> 0], value |-> [l \in Names |-> ""]]

Throw(seen, error) == [seen EXCEPT !.error = error]

-----------------------------------------------------------------------------
Parses(option, text) == option.type = "int" => text \in Numbers

(* A flag has nothing to store but that it was there.                      *)
Stored(option, text) == IF has_arg(option) THEN text ELSE "true"

parse_option(seen, option, text) ==
  IF ~Parses(option, text)
    THEN Throw(seen, "argument_incorrect_type")
    ELSE [seen EXCEPT !.count[option.l] = @ + 1, !.value[option.l] = Stored(option, text)]

(* The next argument, whatever it looks like.                              *)
checked_parse_arg(seen, option) ==
  IF seen.current = Len(argv)
    THEN Throw(seen, "missing_argument")
    ELSE parse_option([seen EXCEPT !.current = @ + 1], option, Text(argv[seen.current + 1]))

(* One letter of a group; one that wants an argument must be the last.     *)
TakeLetter(letters, seen, i) ==
  CASE seen.error # "" -> seen
    [] seen.error = "" /\ Find(letters[i]) = {} -> Throw(seen, "option_not_exists")
    [] OTHER ->
         LET option == TheOption(letters[i]) IN
         IF ~has_arg(option) THEN parse_option(seen, option, "")
         ELSE IF i = Len(letters) THEN checked_parse_arg(seen, option)
         ELSE Throw(seen, "option_requires_argument")

(* Mutant of ParseGroup: the group ends with its first letter.             *)
ParseFirstLetter(seen, letters) == TakeLetter(letters, seen, 1)

ParseGroup(seen, letters) ==
  FoldLeft(LAMBDA state, i : TakeLetter(letters, state, i), seen,
           [i \in DOMAIN letters |-> i])

ParseLong(seen, name, text) ==
  IF Find(name) = {} THEN Throw(seen, "option_not_exists")
  ELSE LET option == TheOption(name) IN
    CASE text # "" /\ ~has_arg(option) -> Throw(seen, "option_not_has_argument")
      [] text # "" /\ has_arg(option) -> parse_option(seen, option, text)
      [] text = "" /\ has_arg(option) -> checked_parse_arg(seen, option)
      [] OTHER -> parse_option(seen, option, "")

add_to_option(seen, name, text) ==
  IF Find(name) = {} THEN Throw(seen, "option_not_exists")
                     ELSE parse_option(seen, TheOption(name), text)

(* An argument that is no option is kept for the caller, who ignores it.   *)
consume_positional(seen, arg) ==
  IF Positional # "" THEN add_to_option(seen, Positional, arg.text)
                     ELSE [seen EXCEPT !.kept = Append(@, arg)]

Parsed(seen, arg) ==
  CASE arg.kind = "plain" -> consume_positional(seen, arg)
    [] arg.kind = "long" -> ParseLong(seen, arg.name, arg.text)
    [] OTHER -> ParseGroup(seen, arg.letters)

ParseArgument ==
  /\ options.error = "" /\ options.current <= Len(argv)
  /\ options' = [Parsed(options, argv[options.current]) EXCEPT !.current = @ + 1]
  /\ UNCHANGED argv

IsParsed == options.error = "" /\ options.current > Len(argv)

count(name) == options.count[name]

as(name) == options.value[name]

-----------------------------------------------------------------------------
(* The help: of each option the width, whether its description begins on   *)
(* the next line, the blanks before it, and how it is broken into lines.   *)
OPTION_LONGEST == 30
OPTION_DESC_GAP == 2

format_option(option) ==
  8 + Len(option.l) + (IF has_arg(option) THEN 1 + Len(option.arg_help) ELSE 0)

(* A line ends at its last space as soon as it is too long, or at once when*)
(* it has none.  Behind a line that ended at a space, the space is still   *)
(* the last: another line without one is then asked for from behind its    *)
(* beginning, and the string throws.                                       *)
format_description(desc, width) ==
  LET Break(w, last, i) ==
        CASE last = w.start -> [w EXCEPT !.lines = Append(@, SubSeq(desc, w.start, i)),
                                         !.start = i + 1, !.last = i + 1, !.size = 0]
          [] last < w.start -> [w EXCEPT !.thrown = TRUE]
          [] OTHER -> [w EXCEPT !.lines = Append(@, SubSeq(desc, w.start, last - 1)),
                                !.start = last + 1, !.last = last, !.size = 0]
      At(w, i) ==
        LET last == IF SubSeq(desc, i, i) = " " THEN i ELSE w.last IN
        CASE w.thrown -> w
          [] ~w.thrown /\ w.size > width -> Break(w, last, i)
          [] OTHER -> [w EXCEPT !.last = last, !.size = @ + 1]
      broken == FoldLeftDomain(At, [lines |-> <<>>, start |-> 1, last |-> 1, size |-> 0,
                                    thrown |-> FALSE], [i \in 1..Len(desc) |-> i])
  IN [thrown |-> broken.thrown,
      lines  |-> Append(broken.lines, SubSeq(desc, broken.start, Len(desc)))]

GroupOf(group) == SelectSeq(Declared, LAMBDA option : option.group = group)

longest(group) ==
  Min({OPTION_LONGEST} \cup {Max({format_option(option) : option \in ToSet(GroupOf(group))})})

allowed(group) == 76 - longest(group) - OPTION_DESC_GAP

HelpLine(group, option) ==
  LET width == format_option(option)
      wide == width > longest(group)
  IN [option  |-> option.l,
      width   |-> width,
      newline |-> wide,
      blanks  |-> longest(group) + OPTION_DESC_GAP - (IF wide THEN 0 ELSE width),
      desc    |-> format_description(option.desc, allowed(group))]

help_one_group(group) ==
  [i \in DOMAIN GroupOf(group) |-> HelpLine(group, GroupOf(group)[i])]

help(groups) == FlattenSeq([i \in DOMAIN groups |-> help_one_group(groups[i])])

(* What init prints says something of every option: the two groups that it *)
(* names have them all, no description throws or is broken, and those of a *)
(* group start in one column.                                              *)
ASSUME HelpIsComplete ==
  LET lines == ToSet(help(<<"", "Shell">>)) IN
  /\ {line.option : line \in lines} = Names
  /\ \A line \in lines :
       /\ ~line.desc.thrown
       /\ line.desc.lines = <<TheOption(line.option).desc>>
       /\ \/ line.newline
          \/ line.width + line.blanks =
               longest(TheOption(line.option).group) + OPTION_DESC_GAP
=============================================================================
