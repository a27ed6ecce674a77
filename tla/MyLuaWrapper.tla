---------------------------- MODULE MyLuaWrapper ----------------------------
(***************************************************************************)
(* MyLuaWrapper (MyLuaWrapper.cpp): one Lua state, the scripts run in it   *)
(* and the values they leave on its stack.                                 *)
(*                                                                         *)
(* A script may call a function of the host, which may use the wrapper in  *)
(* its turn: each such call has a frame, with a stack of its own, above    *)
(* the frame of the call that runs the script.  The host's code runs when  *)
(* the top frame has no call in progress, and a script when it has one.    *)
(***************************************************************************)
EXTENDS Integers, Sequences, SequencesExt

CONSTANTS
  Signatures,  \* of call_va: [args, results], their numbers, and whether all the options
               \* of each are known: [argsOK, resultsOK]
  MaxLeft,     \* bound: values left on the stack of a frame before a call
  MaxFrames    \* bound: frames

ASSUME LuaAssumption ==
  /\ \A s \in Signatures : s.args \in Nat /\ s.results \in Nat
  /\ MaxLeft \in Nat /\ MaxFrames \in Nat \ {0}

VARIABLES
  frames,      \* of the state, none when m_pState is NULL: the number of values on the
               \* stack, the kind of the call in progress, and for call_va its signature
               \* and the number of values before it
  panicked     \* an error outside of any call has ended the program

luaVars == <<frames, panicked>>

NoSignature == [args |-> 0, results |-> 0, argsOK |-> TRUE, resultsOK |-> TRUE]
Frame(size) == [size |-> size, call |-> "none", sig |-> NoSignature, before |-> 0]
Calling(f, kind, sig) == [size |-> f.size + 1 + sig.args, call |-> kind, sig |-> sig,
                          before |-> f.size]

LuaInit == frames = <<>> /\ panicked = FALSE

HostRuns == frames # <<>> /\ Last(frames).call = "none"
ScriptRuns == frames # <<>> /\ Last(frames).call # "none"
Topped(f) == Append(Front(frames), f)

-----------------------------------------------------------------------------
\* Init() on a state that is there does nothing.
OpenLua == /\ frames = <<>>
           /\ frames' = <<Frame(0)>>
           /\ UNCHANGED panicked

CloseLua == /\ HostRuns /\ Len(frames) = 1
            /\ frames' = <<>>
            /\ UNCHANGED panicked

HostCalls == HostRuns /\ Last(frames).size < MaxLeft

\* One value stays on the stack: the chunk, of which LoadFile() says false, or a message,
\* of which it says true.  DoFile() and DoString() of what does not compile leave a
\* message, too.
LoadFile == /\ HostCalls
            /\ frames' = Topped(Frame(Last(frames).size + 1))
            /\ UNCHANGED panicked

DoScript == /\ HostCalls
            /\ frames' = Topped(Calling(Last(frames), "do", NoSignature))
            /\ UNCHANGED panicked

CallVa(sig) == /\ HostCalls /\ sig.argsOK
               /\ frames' = Topped(Calling(Last(frames), "va", sig))
               /\ UNCHANGED panicked

\* lua_pcall takes the arguments and the function, and an error leaves a message in their
\* place, which call_va pops and luaL_dofile does not.
Failed(f) == Frame(IF f.call = "va" THEN f.size - f.sig.args - 1 ELSE f.size - f.sig.args)

\* Mutant of Succeeded: results of the wrong type stay on the stack.
SucceededOrNot(f, given) ==
  Frame(f.size - f.sig.args - 1 + (IF f.call = "do" THEN given
                                   ELSE IF f.sig.resultsOK THEN 0 ELSE f.sig.results))

\* All results are popped, whether they are as asked for, of a wrong type or of an
\* unknown option; those of luaL_dofile, as many as the script gives, stay.
Succeeded(f, given) == Frame(f.size - f.sig.args - 1 + (IF f.call = "va" THEN 0 ELSE given))

\* An error goes to the call in progress below, or to the script that runs in it.
Raised(fs) == {Append(Front(fs), Failed(Last(fs))), fs}

\* call_va raises an unknown option of an argument as an error of its own, which its
\* caller does not get back if that is not a script.
CallVaUnknown(sig) ==
  /\ HostCalls /\ ~sig.argsOK
  /\ IF Len(frames) = 1 THEN panicked' = TRUE /\ UNCHANGED frames
     ELSE frames' \in Raised(Front(frames)) /\ UNCHANGED panicked

ScriptEnds == /\ ScriptRuns
              /\ \E given \in 0..1 : frames' = Topped(Succeeded(Last(frames), given))
              /\ UNCHANGED panicked

ScriptFails == /\ ScriptRuns
               /\ frames' = Topped(Failed(Last(frames)))
               /\ UNCHANGED panicked

\* A script calls a function of the host, and the function returns.
CallsBack == /\ ScriptRuns /\ Len(frames) < MaxFrames
             /\ frames' = Append(frames, Frame(0))
             /\ UNCHANGED panicked

ReturnsToScript == /\ HostRuns /\ Len(frames) > 1
                   /\ frames' = Front(frames)
                   /\ UNCHANGED panicked

LuaNext == /\ ~panicked
           /\ \/ OpenLua \/ CloseLua \/ LoadFile \/ DoScript
              \/ \E sig \in Signatures : CallVa(sig) \/ CallVaUnknown(sig)
              \/ ScriptEnds \/ ScriptFails \/ CallsBack \/ ReturnsToScript

LuaSpec == LuaInit /\ [][LuaNext]_luaVars

-----------------------------------------------------------------------------
(* Properties *)

\* Whatever becomes of it, and of the calls inside of it, a call_va that returns leaves
\* on the stack what was there before, so a program can make any number of them
\* (MyLuaWrapper.cpp:87-166).
CallsAreBalanced ==
  [][\A d \in DOMAIN frames \cap DOMAIN frames' :
       frames[d].call = "va" /\ frames'[d].call = "none"
         => frames'[d].size = frames[d].before]_luaVars
=============================================================================
