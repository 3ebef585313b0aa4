-------------------------------- MODULE MCMain --------------------------------
(***************************************************************************)
(* Instance of Main for TLC: command lines of up to three options, in all  *)
(* spellings, and of three arguments that nobody meant; files of up to     *)
(* three lines, some malformed, with the same key in other letters, an     *)
(* unknown one, or a value with a space.                                   *)
(***************************************************************************)
EXTENDS Main

MCLines ==
  {<<>>, <<" ", "#", "port", "=", "0">>, <<"port">>, <<"port", "=", "1", "=", "1">>,
   <<"port", "=", "0">>, <<" ", "Port", " ", "=", "66741", "#", "a", "=", "b">>,
   <<"port", "=", "any">>, <<"listen", "=", "LocalHost", " ">>,
   <<"unixsocket", "=", "No">>, <<"UnixSocket", "=", "\t", "/tmp/s">>,
   <<"threads", "=", "4">>, <<"dbfolder", "=", "/my", " ", "data">>,
   <<"unixsocket", "=", " ", "/a", " ", "b">>}

MCtoLower ==
  [s \in {"port", "listen", "unixsocket", "threads", "dbfolder", " ", "\t",
          "0", "1", "66741", "any", "/tmp/s", "4", "/my", "data", "/a", "b"} |-> s]
    @@ ("Port" :> "port") @@ ("LocalHost" :> "localhost") @@ ("No" :> "no")
    @@ ("UnixSocket" :> "unixsocket")

MCatoi == (<<"any">> :> 0) @@ (<<"66741">> :> 66741) @@ (<<"1205">> :> 1205)

MCDefaults ==
  [listen |-> <<"localhost">>, port |-> <<"1205">>, unixsocket |-> <<"no">>,
   loglevel |-> <<"info">>, logfile |-> <<"/var/log/trisdb/trisdb.log">>,
   dbfolder |-> <<"/var/lib/trisdb">>]

(* The second looks like an option.                                        *)
MCNamed == {"a.conf", "--shell"}

(* The first is a number with a digit that it does not need.               *)
MCNumbers == {"01205", "-7"}
MCto_string == ("01205" :> "1205") @@ ("-7" :> "-7")
MCSockets == {"-s"}

MCLoose ==
  {Plain("12x"), Plain("a.conf"), Long("config", ""), Long("port", ""),
   Long("help", "yes"), Long("verbose", ""), Short(<<"c", "s">>),
   Short(<<"s", "x">>), Short(<<"s", "c">>), Long("shell", "")}

MCPaths == MCNamed \cup {Text(arg) : arg \in MCLoose}
=============================================================================
