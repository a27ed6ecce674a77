---------------------------- MODULE ClientProgram ----------------------------
(***************************************************************************)
(* What a client program is made of: its configuration, the scripts it     *)
(* runs, and its connection.                                               *)
(*                                                                         *)
(* Configuration and scripts meet in the functions tolua++ has generated   *)
(* (interface2lua.cpp): scripts read the configuration through them, which *)
(* only the host can load.  The connection shares no state with the other  *)
(* two, so it is enough to see it with them at rest, and them with it.     *)
(***************************************************************************)
EXTENDS HSConfigFile, MyLuaWrapper, HSClientConnector

CONSTANT ScriptFiles   \* what is loaded while there is a Lua state

ASSUME ProgramAssumption == ScriptFiles \subseteq Files

-----------------------------------------------------------------------------
(* interface2lua.cpp.  Arguments of wrong types, and no value where one is needed, are an *)
(* error of the script before the configuration is reached: see ScriptFails.              *)

\* GetData and GetHSValue of the three kinds of ConfigFile
ScriptLooksUp ==
  /\ ScriptRuns
  /\ \E k \in Keys, f \in Fields : GetData(k, f) \/ GetHSValue(k, f)
  /\ UNCHANGED luaVars

\* AsBool ... AsUlong of a value the script has kept, be it from an earlier call.
\* AsLonglong and AsUlonglong are not there for scripts.
ScriptConverts ==
  /\ ScriptRuns
  /\ \E kind \in Kinds \ {"longlong"} : AsKind(kind)
  /\ UNCHANGED luaVars

-----------------------------------------------------------------------------
ProgramInit == ConfigInit /\ LuaInit /\ ClientInit

\* The host without a Lua state, and with one
HostAlone == frames = <<>> /\ ConfigNext /\ UNCHANGED luaVars

HostBeside == /\ HostRuns
              /\ ClearConfig \/ \E f \in ScriptFiles : Reload(f)
              /\ UNCHANGED luaVars

HostOpens == /\ loaded = <<>> /\ held = Nothing
             /\ OpenLua /\ UNCHANGED configVars

LuaStep == frames # <<>> /\ LuaNext /\ UNCHANGED configVars

ScriptsNext == /\ ~undefined /\ ~panicked
               /\ \/ HostAlone \/ HostOpens \/ HostBeside \/ LuaStep
                  \/ ScriptLooksUp \/ ScriptConverts

ScriptsAtRest == loaded = <<>> /\ held = Nothing /\ frames = <<>> /\ ~undefined

Connection == ScriptsAtRest /\ ClientNext /\ UNCHANGED <<configVars, luaVars>>

Scripts == inits = 0 /\ ScriptsNext /\ UNCHANGED clientVars

ProgramSpec == /\ ProgramInit
               /\ [][Connection \/ Scripts]_<<configVars, luaVars, clientVars>>
               /\ ClientFairness

-----------------------------------------------------------------------------
(* The instance that is checked *)

File(lines, ended) == [lines |-> lines, ended |-> ended]

MCTexts == {"", "id", "v", "1", "x", "y"}

\* atoi
MCKeyOf == [t \in MCTexts |-> IF t = "1" THEN 1 ELSE 0]

\* A key twice; and below two lines of header
Proper == File(<<<<"id", "v", "">>, <<"1", "x", "">>, <<"1", "y", "">>>>, TRUE)
Headed == File(<<<<"v", "x", "">>, <<"id", "v", "">>, <<"1", "y", "">>>>, TRUE)

\* No newline at the end; an empty cell, and a cell without a delimiter; an empty line
Unended == File(<<<<"id", "v", "">>, <<"x", "1", "">>, <<"1", "x", "">>>>, FALSE)
Gaps == File(<<<<"id", "v", "">>, <<"1", "", "">>, <<"x", "1">>>>, TRUE)
Blank == File(<<<<"id", "v", "">>, <<"">>>>, TRUE)


\* A row wider than the header, whose names are not all different
Wide == File(<<<<"id", "v", "v", "">>, <<"1", "x", "y", "v", "">>>>, TRUE)

MCFiles == {Proper, Headed, Unended, Gaps, Blank, Wide}
MCScriptFiles == {Proper}

Layout(headerRows, keyRow) == [keyField |-> "id", headerRows |-> headerRows, keyRow |-> keyRow]
MCLayouts == {Layout(1, 0), Layout(2, 1)}

Signature(args, results, argsOK, resultsOK) ==
  [args |-> args, results |-> results, argsOK |-> argsOK, resultsOK |-> resultsOK]
MCSignatures == {Signature(0, 0, TRUE, TRUE), Signature(1, 2, TRUE, TRUE),
                 Signature(2, 1, TRUE, FALSE), Signature(0, 0, FALSE, TRUE)}
=============================================================================
