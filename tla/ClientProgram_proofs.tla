------------------------ MODULE ClientProgram_proofs ------------------------
(***************************************************************************)
(* What the three parts of a client program guarantee by themselves: the   *)
(* connection, the Lua state and the configuration.  A step of the program *)
(* is a step of each part, or leaves it alone, so each guarantee holds of  *)
(* the program, too.                                                       *)
(***************************************************************************)
EXTENDS ClientProgram, SequenceTheorems, WellFoundedInduction, TLAPS

(* The connection *)

\* Init() puts another socket in place of the one there is: what the application believes
\* in is gone, and it did that itself.
LEMMA SocketReplaced ==
  ASSUME NEW h, NewSocket(h)
  PROVE  told' # "up" /\ (told \in {"up", "replaced"} => told' = "replaced")
BY DEF NewSocket

\* told becomes "up" only with a connection Tick works on, and ceases to be only when that
\* ends or its socket is replaced; a socket with a connection is never connected again.
LEMMA ToldStep == ASSUME ToldTruth, [ClientNext]_clientVars PROVE ToldTruth'
<1> USE DEF ToldTruth
<1>1. CASE InitSocket \/ InitFails
  BY <1>1, SocketReplaced DEF InitSocket, InitFails
<1>2. CASE ConnectAtOnce \/ ConnectGoesOn \/ TickConnecting
  BY <1>2 DEF ConnectAtOnce, ConnectGoesOn, MayConnect, TickConnecting, OnConnect
<1>3. CASE Close
  BY <1>3 DEF Close, Released
<1>4. CASE Disconnect \/ Send \/ SendRefused \/ TickSendsAll \/ TickSendsPart
  BY <1>4 DEF Disconnect, Send, SendRefused, TickSendsAll, TickSendsPart, TickSends
<1>5. CASE TickReadFails \/ TickSendFails
  BY <1>5 DEF TickReadFails, TickSendFails, OnDisconnect, Released
<1>6. CASE NetworkStep \/ UNCHANGED clientVars
  BY <1>6 DEF NetworkStep, Becoming, clientVars
<1> QED
  BY <1>1, <1>2, <1>3, <1>4, <1>5, <1>6 DEF ClientNext

\* At first there is no connection.
LEMMA ClientStart == ClientInit => ToldTruth
BY DEF ClientInit, ToldTruth

-----------------------------------------------------------------------------
(* The Lua state *)

Calls == {"do", "va"}

\* A frame without a call in progress has nothing of one, and one with a call has, above
\* what was there before, the function and its arguments.
FrameSet == {f \in [size : Nat, call : Calls \cup {"none"}, before : Nat,
                    sig : Signatures \cup {NoSignature}] :
               \/ f.call = "none" /\ f.sig.args = 0
               \/ f.call \in Calls /\ f.sig.args \in Nat /\ f.size = f.before + 1 + f.sig.args}

FramesInv == frames \in Seq(FrameSet)

\* A call that ends restores the frame it was made on; only luaL_dofile leaves more.
LEMMA CallEnds ==
  ASSUME NEW f \in FrameSet
  PROVE  /\ Failed(f) \in FrameSet
         /\ f.call # "none" => \A given \in 0..1 : Succeeded(f, given) \in FrameSet
         /\ f.call = "va" => Failed(f).size = f.before
         /\ f.call = "va" => \A given \in 0..1 : Succeeded(f, given).size = f.before
<1>1. ASSUME NEW n \in Nat PROVE Frame(n) \in FrameSet /\ Frame(n).size = n
  BY <1>1 DEF Frame, FrameSet, NoSignature
<1>2. f.size \in Nat /\ f.before \in Nat /\ f.sig.args \in Nat
  BY DEF FrameSet
<1>3. f.call = "none" => f.sig.args = 0
  BY DEF FrameSet, Calls
<1>4. f.call # "none" => f.size = f.before + 1 + f.sig.args
  BY DEF FrameSet
<1>5. f.call # "none" => f.size - f.sig.args - 1 = f.before
  BY <1>2, <1>4
<1>6. f.size - f.sig.args \in Nat
  BY <1>2, <1>3, <1>4, <1>5
<1>7. f.call # "none" => \A given \in 0..1 : f.size - f.sig.args - 1 + given \in Nat
  BY <1>2, <1>5
<1>8. Failed(f) \in FrameSet /\ (f.call = "va" => Failed(f).size = f.before)
  BY <1>1, <1>2, <1>5, <1>6 DEF Failed
<1>9. ASSUME f.call # "none", NEW given \in 0..1
      PROVE  /\ Succeeded(f, given) \in FrameSet
             /\ f.call = "va" => Succeeded(f, given).size = f.before
  BY <1>1, <1>2, <1>5, <1>7, <1>9 DEF Succeeded
<1> QED
  BY <1>8, <1>9

\* A call begins above what is on the stack of a frame without one.
LEMMA CallBegins ==
  ASSUME NEW f \in FrameSet
  PROVE  /\ Frame(0) \in FrameSet /\ Frame(f.size + 1) \in FrameSet
         /\ Calling(f, "do", NoSignature) \in FrameSet
         /\ \A sig \in Signatures : Calling(f, "va", sig) \in FrameSet
<1>1. f.size \in Nat /\ f.size + 1 \in Nat /\ 0 \in Nat
  BY DEF FrameSet
<1>2. ASSUME NEW n \in Nat PROVE Frame(n) \in FrameSet
  BY <1>2 DEF Frame, FrameSet, NoSignature
<1>3. ASSUME NEW kind \in Calls, NEW sig \in Signatures \cup {NoSignature}
      PROVE  Calling(f, kind, sig) \in FrameSet
  <2>1. sig.args \in Nat
    BY <1>3, LuaAssumption DEF NoSignature
  <2>2. f.size + 1 + sig.args \in Nat
    BY <1>1, <2>1
  <2> QED
    BY <1>1, <1>3, <2>1, <2>2 DEF Calling, FrameSet
<1> QED
  BY <1>1, <1>2, <1>3 DEF Calls

\* The frame on top, the others, and another frame in its place
LEMMA TopOf ==
  ASSUME NEW s \in Seq(FrameSet), s # <<>>
  PROVE  /\ Last(s) = s[Len(s)] /\ Last(s) \in FrameSet
         /\ Front(s) \in Seq(FrameSet) /\ Len(Front(s)) = Len(s) - 1
         /\ \A d \in 1..Len(Front(s)) : Front(s)[d] = s[d]
         /\ \A f \in FrameSet :
              /\ Append(Front(s), f) \in Seq(FrameSet) /\ Len(Append(Front(s), f)) = Len(s)
              /\ Append(Front(s), f)[Len(s)] = f
              /\ \A d \in 1..Len(s) : d # Len(s) => Append(Front(s), f)[d] = s[d]
<1>1. Len(s) \in Nat /\ Len(s) # 0
  OBVIOUS
<1>2. Last(s) = s[Len(s)] /\ Last(s) \in FrameSet
  BY <1>1 DEF Last
<1>3. /\ Front(s) \in Seq(FrameSet) /\ Len(Front(s)) = Len(s) - 1
      /\ \A d \in 1..Len(s) - 1 : Front(s)[d] = s[d]
  <2>1. \A i \in 1..Len(s) - 1 : s[i] \in FrameSet
    BY <1>1
  <2>2. Front(s) = SubSeq(s, 1, Len(s) - 1)
    BY DEF Front
  <2>3. Len(s) - 1 - 1 + 1 = Len(s) - 1 /\ \A d \in 1..Len(s) - 1 : 1 + d - 1 = d
    BY <1>1
  <2> QED
    BY <1>1, <2>1, <2>2, <2>3, SubSeqProperties
<1>4. ASSUME NEW f \in FrameSet
      PROVE  /\ Append(Front(s), f) \in Seq(FrameSet) /\ Len(Append(Front(s), f)) = Len(s)
             /\ Append(Front(s), f)[Len(s)] = f
             /\ \A d \in 1..Len(s) : d # Len(s) => Append(Front(s), f)[d] = s[d]
  <2>1. \A d \in 1..Len(s) : d # Len(s) => d \in 1..Len(Front(s))
    BY <1>1, <1>3
  <2> QED
    BY <1>1, <1>3, <2>1
<1> QED
  BY <1>2, <1>3, <1>4

\* What CallsAreBalanced says of a step
Restores == \A d \in DOMAIN frames \cap DOMAIN frames' :
              frames[d].call = "va" /\ frames'[d].call = "none"
                => frames'[d].size = frames[d].before

\* Only the frame on top changes: into one that is not there of a call, or by the end of
\* the call that is there.
LEMMA TopChanges ==
  ASSUME FramesInv, frames # <<>>, NEW f \in FrameSet, frames' = Topped(f),
         Last(frames).call = "va" => f.size = Last(frames).before
  PROVE  FramesInv' /\ Restores
<1>1. /\ frames' \in Seq(FrameSet) /\ Len(frames') = Len(frames) /\ frames'[Len(frames)] = f
      /\ \A d \in 1..Len(frames) : d # Len(frames) => frames'[d] = frames[d]
      /\ Last(frames) = frames[Len(frames)]
  BY TopOf DEF FramesInv, Topped
<1>2. DOMAIN frames = 1..Len(frames) /\ DOMAIN frames' = 1..Len(frames)
  BY <1>1 DEF FramesInv
<1>3. \A d \in 1..Len(frames) : frames[d].call = "va" /\ frames[d].call = "none" => FALSE
  OBVIOUS
<1> QED
  BY <1>1, <1>2, <1>3 DEF FramesInv, Restores

\* Every step of the Lua state keeps the frames what they are, and restores those whose
\* call ends.
LEMMA LuaStepInv == ASSUME FramesInv, [LuaNext]_luaVars PROVE FramesInv' /\ Restores
<1>1. /\ frames \in Seq(FrameSet) /\ DOMAIN frames = 1..Len(frames) /\ Len(frames) \in Nat
      /\ frames # <<>> => Last(frames) \in FrameSet
  BY TopOf DEF FramesInv
<1>2. CASE OpenLua
  <2>1. Frame(0) \in FrameSet
    BY DEF Frame, FrameSet, NoSignature
  <2>2. frames' \in Seq(FrameSet) /\ DOMAIN frames = {}
    BY <1>1, <1>2, <2>1 DEF OpenLua
  <2> QED
    BY <2>2 DEF FramesInv, Restores
<1>3. CASE CloseLua
  <2>1. frames' = <<>> /\ DOMAIN frames' = {}
    BY <1>3 DEF CloseLua
  <2> QED
    BY <2>1 DEF FramesInv, Restores
<1>4. CASE LoadFile \/ DoScript \/ \E sig \in Signatures : CallVa(sig)
  <2>1. frames # <<>> /\ Last(frames).call # "va"
    BY <1>4 DEF LoadFile, DoScript, CallVa, HostCalls, HostRuns
  <2>2. \E f \in FrameSet : frames' = Topped(f)
    BY <1>1, <1>4, <2>1, CallBegins DEF LoadFile, DoScript, CallVa
  <2> QED
    BY <2>1, <2>2, TopChanges
<1>5. CASE ScriptEnds \/ ScriptFails
  <2>1. frames # <<>> /\ Last(frames).call # "none"
    BY <1>5 DEF ScriptEnds, ScriptFails, ScriptRuns
  <2>2. \E f \in FrameSet : /\ frames' = Topped(f)
                            /\ Last(frames).call = "va" => f.size = Last(frames).before
    BY <1>1, <1>5, <2>1, CallEnds DEF ScriptEnds, ScriptFails
  <2> QED
    BY <2>1, <2>2, TopChanges
<1>6. ASSUME NEW sig \in Signatures, CallVaUnknown(sig) PROVE FramesInv' /\ Restores
  <2>1. CASE Len(frames) = 1
    <3>1. frames' = frames
      BY <1>6, <2>1 DEF CallVaUnknown
    <3> QED
      BY <1>1, <3>1 DEF FramesInv, Restores
  <2>2. CASE Len(frames) # 1
    <3> DEFINE s == Front(frames)
    <3>0. frames # <<>> /\ Len(frames) # 0
      BY <1>1, <1>6 DEF CallVaUnknown, HostCalls, HostRuns
    <3>1. s \in Seq(FrameSet) /\ Len(s) = Len(frames) - 1 /\ s # <<>>
          /\ \A d \in 1..Len(s) : s[d] = frames[d]
      <4>1. s \in Seq(FrameSet) /\ Len(s) = Len(frames) - 1
            /\ \A d \in 1..Len(s) : s[d] = frames[d]
        BY <1>1, <3>0, TopOf
      <4> HIDE DEF s
      <4> QED
        BY <1>1, <2>2, <3>0, <4>1
    <3>2. Last(s) = s[Len(s)] /\ Last(s) \in FrameSet
      BY <3>1, TopOf
    <3>3. Failed(Last(s)) \in FrameSet
          /\ (Last(s).call = "va" => Failed(Last(s)).size = Last(s).before)
      BY <3>2, CallEnds
    <3>4. frames' = s \/ frames' = Append(Front(s), Failed(Last(s)))
      BY <1>6, <2>2 DEF CallVaUnknown, Raised
    <3> HIDE DEF s
    <3>5. CASE frames' = s
      BY <1>1, <3>1, <3>5 DEF FramesInv, Restores
    <3>6. CASE frames' = Append(Front(s), Failed(Last(s)))
      <4>1. /\ frames' \in Seq(FrameSet) /\ Len(frames') = Len(s)
            /\ frames'[Len(s)] = Failed(Last(s))
            /\ \A d \in 1..Len(s) : d # Len(s) => frames'[d] = s[d]
        BY <3>1, <3>3, <3>6, TopOf
      <4>2. DOMAIN frames' = 1..Len(s) /\ DOMAIN frames \cap DOMAIN frames' = 1..Len(s)
        <5>0. DOMAIN frames' = 1..Len(frames')
          BY <4>1
        <5>1. DOMAIN frames' = 1..Len(s)
          BY <4>1, <5>0
        <5> Len(frames) \in Nat /\ Len(s) = Len(frames) - 1
          BY <1>1, <3>1
        <5>2. 1..Len(s) \subseteq 1..Len(frames)
          BY <1>1, <5>1
        <5>3. \A A, B : A \subseteq B => B \cap A = A
          OBVIOUS
        <5>4. 1..Len(frames) \cap 1..Len(s) = 1..Len(s)
          BY <5>2, <5>3, Zenon
        <5> QED
          BY <1>1, <5>1, <5>4, Zenon
      <4>3. \A d \in 1..Len(s) :
              frames[d].call = "va" /\ frames'[d].call = "none"
                => frames'[d].size = frames[d].before
        BY <3>1, <3>2, <3>3, <4>1
      <4> QED
        BY <4>1, <4>2, <4>3 DEF FramesInv, Restores
    <3> QED
      BY <3>4, <3>5, <3>6
  <2> QED
    BY <2>1, <2>2
<1>7. CASE CallsBack
  <2>1. /\ frames' \in Seq(FrameSet)
        /\ \A d \in 1..Len(frames) : frames'[d] = frames[d]
    BY <1>1, <1>7, CallBegins DEF CallsBack, ScriptRuns
  <2> QED
    BY <1>1, <2>1 DEF FramesInv, Restores
<1>8. CASE ReturnsToScript
  <2>1. /\ frames' \in Seq(FrameSet) /\ Len(frames') = Len(frames) - 1
        /\ \A d \in 1..Len(frames') : frames'[d] = frames[d]
    BY <1>1, <1>8, TopOf DEF ReturnsToScript, HostRuns
  <2>2. DOMAIN frames \cap DOMAIN frames' \subseteq 1..Len(frames')
    BY <2>1
  <2> QED
    BY <2>1, <2>2 DEF FramesInv, Restores
<1>9. CASE UNCHANGED luaVars
  BY <1>1, <1>9 DEF luaVars, FramesInv, Restores
<1> QED
  BY <1>2, <1>3, <1>4, <1>5, <1>6, <1>7, <1>8, <1>9 DEF LuaNext

-----------------------------------------------------------------------------
(* What a configuration file is read into *)

\* Every set of natural numbers with an element has a least one, which Min finds.
LEMMA MinIn ==
  ASSUME NEW S \in SUBSET Nat, S # {}
  PROVE  Min(S) \in S /\ \A y \in S : Min(S) <= y
<1> DEFINE Less == {ss \in Nat \X Nat : ss[1] < ss[2]}
<1>1. IsWellFoundedOn(Less, Nat)
  BY NatLessThanWellFounded, Zenon DEF OpToRel
<1>2. PICK x \in S : \A y \in S : <<y, x>> \notin Less
  <2> HIDE DEF Less
  <2> QED
    BY <1>1, WFMin, Zenon
<1>3. \A y \in S : x <= y
  <2> TAKE y \in S
  <2>1. <<y, x>> \in Nat \X Nat /\ x \in Nat /\ y \in Nat
    OBVIOUS
  <2>2. ~(<<y, x>>[1] < <<y, x>>[2])
    BY <1>2, <2>1
  <2> QED
    BY <2>1, <2>2
<1> QED
  BY <1>3 DEF Min

\* And a bounded one a greatest, which Max finds.
LEMMA MaxIn ==
  ASSUME NEW n \in Nat, NEW S \in SUBSET (1..n), S # {}
  PROVE  Max(S) \in S /\ \A y \in S : y <= Max(S)
<1> DEFINE T == {n - x : x \in S}
<1>1. T \in SUBSET Nat /\ T # {}
  <2>1. ASSUME NEW x \in S PROVE x \in Int /\ n - x \in Nat
    <3>1. x \in 1..n
      OBVIOUS
    <3> QED
      BY <3>1
  <2>2. T \subseteq Nat
    BY <2>1
  <2>3. T # {}
    OBVIOUS
  <2> QED
    BY <2>2, <2>3
<1>2. PICK x \in S : \A y \in S : n - x <= n - y
  <2>1. Min(T) \in T /\ \A y \in T : Min(T) <= y
    <3> HIDE DEF T
    <3> QED
      BY <1>1, MinIn
  <2> PICK m : m = Min(T)
    OBVIOUS
  <2>2. m \in T /\ \A x \in S : m <= n - x
    BY <2>1
  <2> QED
    BY <2>2
<1>3. \A y \in S : x >= y
  BY <1>2
<1> QED
  BY <1>3 DEF Max

Lines == Seq(Texts) \ {<<>>}

\* The cells of a line are the texts it begins with; of a proper line, all but the last.
LEMMA RowIsPrefix ==
  ASSUME NEW line \in Lines
  PROVE  /\ CreateDataRow(line) \in Seq(Texts) /\ Len(line) \in Nat \ {0}
         /\ Len(CreateDataRow(line)) <= Len(line) - 1
         /\ \A p \in DOMAIN CreateDataRow(line) :
              p \in Columns(line) /\ CreateDataRow(line)[p] = line[p]
         /\ IsProper(line) => Len(CreateDataRow(line)) = Len(line) - 1
<1> DEFINE n == Len(line) - 1
           gaps == {p \in 2..n : line[p] = ""}
           m == IF gaps = {} THEN n ELSE Min(gaps) - 1
<1>1. line \in Seq(Texts) /\ Len(line) \in Nat /\ n \in Int /\ n < Len(line) /\ n >= 0
  BY DEF Lines
<1>2. gaps \in SUBSET Nat
  <2>1. \A p \in 2..n : p \in Nat
    BY <1>1
  <2> HIDE DEF n
  <2>2. gaps \subseteq Nat
    BY <2>1, Zenon
  <2> QED
    BY <2>2, Zenon
<1>3. gaps # {} => Min(gaps) \in 2..n
  <2>1. gaps # {} => Min(gaps) \in gaps
    BY <1>2, MinIn
  <2> QED
    BY <2>1
<1>4. m \in Nat /\ m <= n
  <2> HIDE DEF gaps, n
  <2> QED
    BY <1>1, <1>3
<1>5. IsProper(line) => m = n
  <2>1. ASSUME IsProper(line), NEW p \in 2..n PROVE line[p] # ""
    <3>1. p \in DOMAIN line /\ p # Len(line)
      BY <1>1
    <3> QED
      BY <2>1, <3>1 DEF IsProper
  <2> QED
    BY <2>1
<1>6. CreateDataRow(line) = SubSeq(line, 1, m)
  BY DEF CreateDataRow
<1> HIDE DEF m
<1>7. \A i \in 1..m : line[i] \in Texts
  BY <1>1, <1>4
<1>8. /\ CreateDataRow(line) \in Seq(Texts) /\ Len(CreateDataRow(line)) = m
      /\ \A p \in 1..m : CreateDataRow(line)[p] = line[p]
  <2>1. /\ SubSeq(line, 1, m) \in Seq(Texts) /\ Len(SubSeq(line, 1, m)) = m
        /\ \A p \in 1..m : SubSeq(line, 1, m)[p] = line[p]
    BY <1>1, <1>4, <1>7, SubSeqProperties
  <2> QED
    BY <1>6, <2>1
<1>9. DOMAIN CreateDataRow(line) = 1..m /\ 1..m \subseteq Columns(line)
  BY <1>1, <1>4, <1>8 DEF Columns
<1> QED
  BY <1>1, <1>4, <1>5, <1>8, <1>9

\* Every line is read that ends.
LEMMA LinesAre ==
  ASSUME NEW file \in Files
  PROVE  /\ file.lines \in Seq(Lines) /\ LinesRead(file) \in Seq(Lines)
         /\ Len(file.lines) \in Nat /\ Len(LinesRead(file)) \in Nat
         /\ Len(LinesRead(file)) <= Len(file.lines)
         /\ \A n \in 1..Len(LinesRead(file)) : LinesRead(file)[n] = file.lines[n]
         /\ file.ended => Len(LinesRead(file)) = Len(file.lines)
<1> DEFINE c == Len(file.lines) - (IF file.ended THEN 0 ELSE 1)
<1>1. file.lines \in Seq(Lines) /\ Len(file.lines) \in Nat
  <2>1. file.lines \in Seq(Lines)
    BY ConfigAssumption DEF Lines
  <2> QED
    BY <2>1
<1>2. c \in Int /\ c <= Len(file.lines) /\ (file.ended => c = Len(file.lines))
  <2>1. /\ c = Len(file.lines) - 0 \/ c = Len(file.lines) - 1
        /\ file.ended => c = Len(file.lines) - 0
    BY Zenon
  <2> HIDE DEF c
  <2> QED
    BY <1>1, <2>1
<1>3. LinesRead(file) = SubSeq(file.lines, 1, c)
  BY DEF LinesRead
<1> HIDE DEF c
<1>4. \A i \in 1..c : file.lines[i] \in Lines
  BY <1>1, <1>2
<1>5. /\ LinesRead(file) \in Seq(Lines)
      /\ Len(LinesRead(file)) = IF c < 1 THEN 0 ELSE c
      /\ \A n \in 1..Len(LinesRead(file)) : LinesRead(file)[n] = file.lines[n]
  <2>1. /\ SubSeq(file.lines, 1, c) \in Seq(Lines)
        /\ Len(SubSeq(file.lines, 1, c)) = IF 1 <= c THEN c - 1 + 1 ELSE 0
        /\ \A n \in 1..c - 1 + 1 : SubSeq(file.lines, 1, c)[n] = file.lines[1 + n - 1]
    BY <1>2, <1>4, SubSeqProperties
  <2>2. \A n \in 1..c : n \in Int /\ 1 + n - 1 = n /\ c - 1 + 1 = c
    BY <1>2
  <2> QED
    BY <1>2, <1>3, <2>1, <2>2
<1> QED
  BY <1>1, <1>2, <1>5

\* The rows are those of the lines below the header.
LEMMA RowsAre ==
  ASSUME NEW file \in Files, NEW l \in Layouts
  PROVE  /\ RowsRead(file, l) \in Seq(Seq(Texts)) /\ l.headerRows \in Nat
         /\ \A r \in DOMAIN RowsRead(file, l) :
              /\ l.headerRows + r \in l.headerRows + 1..Len(file.lines)
              /\ l.headerRows + r \in DOMAIN file.lines
              /\ RowsRead(file, l)[r] = CreateDataRow(file.lines[l.headerRows + r])
         /\ file.ended => \A n \in l.headerRows + 1..Len(file.lines) :
                            n - l.headerRows \in DOMAIN RowsRead(file, l)
<1> DEFINE lines == LinesRead(file)
           left == Len(lines) - l.headerRows
           n == Max({left, 0})
<1>1. /\ lines \in Seq(Lines) /\ Len(lines) \in Nat /\ Len(lines) <= Len(file.lines)
      /\ \A i \in 1..Len(lines) : lines[i] = file.lines[i]
      /\ file.ended => Len(lines) = Len(file.lines)
      /\ Len(file.lines) \in Nat /\ DOMAIN file.lines = 1..Len(file.lines)
  BY LinesAre
<1> HIDE DEF lines
<1>2. l.headerRows \in Nat /\ left \in Int
  <2>1. l.headerRows \in Nat
    BY ConfigAssumption
  <2> QED
    BY <1>1, <2>1
<1>3. n \in Nat /\ n = (IF left > 0 THEN left ELSE 0)
  <2> HIDE DEF left
  <2>1. \E x \in {left, 0} : \A y \in {left, 0} : x >= y
    BY <1>2
  <2>2. n \in {left, 0} /\ \A y \in {left, 0} : n >= y
    BY <2>1 DEF Max
  <2> QED
    BY <1>2, <2>2
<1>4. RowsRead(file, l) = [r \in 1..n |-> CreateDataRow(lines[l.headerRows + r])]
  BY DEF RowsRead, lines
<1> HIDE DEF n
<1>5. \A r \in 1..n : /\ l.headerRows + r \in 1..Len(lines)
                      /\ l.headerRows + r \in l.headerRows + 1..Len(file.lines)
  BY <1>1, <1>2, <1>3
<1>6. \A r \in 1..n : CreateDataRow(lines[l.headerRows + r]) \in Seq(Texts)
  <2> TAKE r \in 1..n
  <2>1. lines[l.headerRows + r] \in Lines
    BY <1>1, <1>5
  <2> QED
    BY <2>1, RowIsPrefix
<1>7. RowsRead(file, l) \in Seq(Seq(Texts)) /\ DOMAIN RowsRead(file, l) = 1..n
  BY <1>3, <1>4, <1>6
<1>8. ASSUME NEW r \in 1..n
      PROVE  /\ l.headerRows + r \in DOMAIN file.lines
             /\ RowsRead(file, l)[r] = CreateDataRow(file.lines[l.headerRows + r])
  <2>1. l.headerRows + r \in 1..Len(lines)
    BY <1>5
  <2>2. l.headerRows + r \in 1..Len(file.lines)
    BY <1>1, <2>1
  <2> QED
    BY <1>1, <1>4, <2>1, <2>2
<1>9. ASSUME file.ended, NEW i \in l.headerRows + 1..Len(file.lines)
      PROVE  i - l.headerRows \in 1..n
  BY <1>1, <1>2, <1>3, <1>9
<1> QED
  BY <1>2, <1>5, <1>7, <1>8, <1>9

\* A load puts rows behind those that are there, and the place of a key is one of a row.
LEMMA RowsLoaded ==
  ASSUME NEW file \in Files, layout \in Layouts,
         NEW names, NEW cells \in Seq(Seq(Texts)), NEW fields, NEW places,
         \A k \in DOMAIN places : places[k] \in DOMAIN cells,
         Loading(file, names, cells, fields, places)
  PROVE  /\ rows' \in Seq(Seq(Texts))
         /\ \A r \in DOMAIN cells : r \in DOMAIN rows' /\ rows'[r] = cells[r]
         /\ \A k \in DOMAIN rowPlace' : rowPlace'[k] \in DOMAIN rows'
<1> DEFINE h == names \o HeaderRead(file, layout)
           rs == cells \o RowsRead(file, layout)
           keyPlaces == PlacesOf(layout.keyField, h)
           keyPlace == IF keyPlaces = {} THEN 1 ELSE Max(keyPlaces)
           keyed == {r \in DOMAIN rs : GetFieldByIndex(rs[r], keyPlace) # NULL}
           RowsOf(k) == {r \in keyed : KeyOf[rs[r][keyPlace]] = k}
           found == {KeyOf[rs[r][keyPlace]] : r \in keyed}
<1>1. rows' = rs /\ rowPlace' = Inserted(places, [k \in found |-> Min(RowsOf(k))])
  BY DEF Loading
<1>2. /\ rs \in Seq(Seq(Texts)) /\ DOMAIN rs \in SUBSET Nat
      /\ \A r \in DOMAIN cells : r \in DOMAIN rs /\ rs[r] = cells[r]
  <2> RowsRead(file, layout) \in Seq(Seq(Texts))
    BY RowsAre
  <2> QED
    BY ConcatProperties
<1> HIDE DEF rs, keyPlace
<1>3. \A k \in found : Min(RowsOf(k)) \in DOMAIN rs
  <2> TAKE k \in found
  <2>1. RowsOf(k) # {} /\ RowsOf(k) \in SUBSET Nat /\ RowsOf(k) \subseteq DOMAIN rs
    BY <1>2
  <2> HIDE DEF RowsOf
  <2> QED
    BY <2>1, MinIn
<1> HIDE DEF RowsOf, found
<1> QED
  BY <1>1, <1>2, <1>3 DEF Inserted

-----------------------------------------------------------------------------
(* What one file puts into the tables *)

Loads == [file : Files, layout : Layouts]

FieldPlaces(l) ==
  LET h == HeaderRead(l.file, l.layout)
  IN  [f \in {h[p] : p \in DOMAIN h} |-> Min(PlacesOf(f, h))]

KeyColumn(l) == Max(PlacesOf(l.layout.keyField, HeaderRead(l.file, l.layout)))

RowsWithKey(l) == LET rs == RowsRead(l.file, l.layout)
                  IN  {r \in DOMAIN rs : GetFieldByIndex(rs[r], KeyColumn(l)) # NULL}

KeyAt(l, r) == KeyOf[RowsRead(l.file, l.layout)[r][KeyColumn(l)]]

RowPlaces(l) == [k \in {KeyAt(l, r) : r \in RowsWithKey(l)} |->
                   Min({r \in RowsWithKey(l) : KeyAt(l, r) = k})]

\* s begins with t, and has nothing else in it.
Repeats(s, t) == /\ \A p \in DOMAIN t : p \in DOMAIN s /\ s[p] = t[p]
                 /\ \A p \in DOMAIN s : \E q \in DOMAIN t : s[p] = t[q]

\* The tables are those of one file, loaded once or several times.
HoldsTable(l) == /\ Repeats(header, HeaderRead(l.file, l.layout))
                 /\ Repeats(rows, RowsRead(l.file, l.layout))
                 /\ fieldPlace = FieldPlaces(l) /\ rowPlace = RowPlaces(l)

\* The header is a sequence of texts, and empty if there is no line for it.
LEMMA HeaderOfTexts ==
  ASSUME NEW file \in Files, NEW l \in Layouts
  PROVE  HeaderRead(file, l) \in Seq(Texts)
<1>1. CASE l.keyRow < l.headerRows /\ l.keyRow < Len(LinesRead(file))
  <2>1. /\ l.keyRow \in Nat /\ Len(LinesRead(file)) \in Nat /\ LinesRead(file) \in Seq(Lines)
        /\ l.keyRow < Len(LinesRead(file))
    BY <1>1, LinesAre, ConfigAssumption
  <2>2. LinesRead(file)[l.keyRow + 1] \in Lines
    <3>1. l.keyRow + 1 \in 1..Len(LinesRead(file))
      BY <2>1
    <3> QED
      BY <2>1, <3>1
  <2> QED
    BY <1>1, <2>2, RowIsPrefix DEF HeaderRead
<1>2. CASE ~(l.keyRow < l.headerRows /\ l.keyRow < Len(LinesRead(file)))
  BY <1>2, EmptySeq DEF HeaderRead
<1> QED
  BY <1>1, <1>2

\* A file that can be looked up in has the key field in its header.
LEMMA HeaderIs ==
  ASSUME NEW l \in Loads, HasHeader(l), NEW h, h = HeaderRead(l.file, l.layout)
  PROVE  /\ Header(l) \in Lines /\ h \in Seq(Texts) /\ Len(h) \in Nat
         /\ Len(h) = Len(Header(l)) - 1 /\ Len(Header(l)) \in Nat
         /\ DOMAIN h = Columns(Header(l)) /\ \A p \in DOMAIN h : h[p] = Header(l)[p]
         /\ KeyColumn(l) \in DOMAIN h /\ h[KeyColumn(l)] = l.layout.keyField
<1>1. /\ l.file \in Files /\ l.layout \in Layouts /\ l.layout.keyRow \in Nat
      /\ l.layout.keyRow < l.layout.headerRows /\ l.layout.keyRow < Len(LinesRead(l.file))
  BY ConfigAssumption DEF Loads, HasHeader
<1>2. LinesRead(l.file)[l.layout.keyRow + 1] = Header(l) /\ Header(l) \in Lines
  <2>1. l.layout.keyRow + 1 \in 1..Len(LinesRead(l.file))
    BY <1>1, LinesAre
  <2> QED
    BY <1>1, <2>1, LinesAre DEF Header
<1>3. h = CreateDataRow(Header(l))
  BY <1>1, <1>2 DEF HeaderRead
<1>4. /\ h \in Seq(Texts) /\ Len(h) = Len(Header(l)) - 1 /\ Len(Header(l)) \in Nat
      /\ \A p \in DOMAIN h : h[p] = Header(l)[p]
  BY <1>2, <1>3, RowIsPrefix DEF HasHeader
<1>5. Len(h) \in Nat /\ DOMAIN h = 1..Len(h) /\ DOMAIN h = Columns(Header(l))
  BY <1>4 DEF Columns
<1> DEFINE S == PlacesOf(l.layout.keyField, h)
<1>6. S \in SUBSET (1..Len(h)) /\ S # {}
  BY <1>4, <1>5 DEF PlacesOf, HasHeader
<1>7. Max(S) \in S
  <2> HIDE DEF S
  <2> QED
    BY <1>5, <1>6, MaxIn
<1> QED
  BY <1>2, <1>4, <1>5, <1>7 DEF KeyColumn, PlacesOf

\* A load into empty tables fills them with those of the file.
LEMMA LoadsAfresh ==
  ASSUME NEW file \in Files, layout \in Layouts,
         NEW l, l = [file |-> file, layout |-> layout], HasHeader(l),
         Loading(file, <<>>, <<>>, EmptyMap, EmptyMap)
  PROVE  HoldsTable(l)'
<1> DEFINE h == HeaderRead(file, layout)
           rs == RowsRead(file, layout)
           keyed == {r \in DOMAIN rs : GetFieldByIndex(rs[r], KeyColumn(l)) # NULL}
           RowsOf(k) == {r \in keyed : KeyOf[rs[r][KeyColumn(l)]] = k}
<1>1. l \in Loads /\ l.file = file /\ l.layout = layout
  BY DEF Loads
<1>2. <<>> \o h = h /\ <<>> \o rs = rs
  <2>1. h \in Seq(Texts) /\ rs \in Seq(Seq(Texts))
    BY HeaderOfTexts, RowsAre
  <2> HIDE DEF h, rs
  <2> QED
    BY <2>1
<1>3. PlacesOf(layout.keyField, h) # {} /\ KeyColumn(l) = Max(PlacesOf(layout.keyField, h))
  BY <1>1, HeaderIs DEF KeyColumn, PlacesOf
<1>4. /\ header' = h /\ rows' = rs
      /\ fieldPlace' = Inserted(EmptyMap, [f \in {h[p] : p \in DOMAIN h} |-> Min(PlacesOf(f, h))])
      /\ rowPlace' = Inserted(EmptyMap, [k \in {KeyOf[rs[r][KeyColumn(l)]] : r \in keyed} |->
                                           Min(RowsOf(k))])
  BY <1>2, <1>3 DEF Loading
<1>5. ASSUME NEW F, F = [x \in DOMAIN F |-> F[x]] PROVE Inserted(EmptyMap, F) = F
  BY <1>5 DEF Inserted, EmptyMap
<1>6. fieldPlace' = FieldPlaces(l)
  <2> PICK F : F = FieldPlaces(l)
    OBVIOUS
  <2>1. F = [f \in {h[p] : p \in DOMAIN h} |-> Min(PlacesOf(f, h))]
    BY <1>1 DEF FieldPlaces
  <2>2. fieldPlace' = Inserted(EmptyMap, F)
    BY <1>4, <2>1
  <2>3. F = [x \in DOMAIN F |-> F[x]]
    BY <2>1
  <2> QED
    BY <1>5, <2>2, <2>3
<1>7. rowPlace' = RowPlaces(l)
  <2>1. RowsWithKey(l) = keyed /\ \A r : KeyAt(l, r) = KeyOf[rs[r][KeyColumn(l)]]
    BY <1>1 DEF RowsWithKey, KeyAt
  <2>2. \A k : {r \in RowsWithKey(l) : KeyAt(l, r) = k} = RowsOf(k)
    BY <2>1
  <2>3. {KeyAt(l, r) : r \in RowsWithKey(l)} = {KeyOf[rs[r][KeyColumn(l)]] : r \in keyed}
    BY <2>1
  <2> HIDE DEF RowsOf
  <2> PICK F : F = RowPlaces(l)
    OBVIOUS
  <2>4. F = [k \in {KeyOf[rs[r][KeyColumn(l)]] : r \in keyed} |-> Min(RowsOf(k))]
    BY <2>2, <2>3 DEF RowPlaces
  <2>5. rowPlace' = Inserted(EmptyMap, F)
    BY <1>4, <2>4
  <2>6. F = [x \in DOMAIN F |-> F[x]]
    BY <2>4
  <2> QED
    BY <1>5, <2>5, <2>6
<1> QED
  BY <1>1, <1>4, <1>6, <1>7 DEF HoldsTable, Repeats

\* No row reaches the places of a second header.
LEMMA RowsAreNarrow ==
  ASSUME NEW l \in Loads, HasHeader(l), IsNarrow(l), NEW r \in DOMAIN RowsRead(l.file, l.layout)
  PROVE  /\ RowsRead(l.file, l.layout)[r] \in Seq(Texts)
         /\ Len(RowsRead(l.file, l.layout)[r]) <= Len(HeaderRead(l.file, l.layout))
<1> PICK row, n : row = RowsRead(l.file, l.layout)[r] /\ n = l.layout.headerRows + r
  OBVIOUS
<1>1. l.file \in Files /\ l.layout \in Layouts
  BY DEF Loads
<1>2. /\ n \in l.layout.headerRows + 1..Len(l.file.lines) /\ n \in DOMAIN l.file.lines
      /\ row = CreateDataRow(l.file.lines[n])
  BY <1>1, RowsAre
<1>3. l.file.lines[n] \in Lines
  BY <1>1, <1>2, LinesAre
<1>4. /\ row \in Seq(Texts) /\ Len(row) \in Nat /\ Len(l.file.lines[n]) \in Nat
      /\ Len(row) <= Len(l.file.lines[n]) - 1
  <2> PICK line : line = l.file.lines[n]
    OBVIOUS
  <2>1. line \in Lines /\ row = CreateDataRow(line)
    BY <1>2, <1>3
  <2>2. row \in Seq(Texts) /\ Len(line) \in Nat /\ Len(row) <= Len(line) - 1
    BY <2>1, RowIsPrefix
  <2>3. Len(row) \in Nat
    BY <2>2
  <2> QED
    BY <2>2, <2>3
<1>5. Len(l.file.lines[n]) <= Len(Header(l))
  BY <1>2 DEF IsNarrow
<1>6. /\ Len(Header(l)) \in Nat
      /\ Len(HeaderRead(l.file, l.layout)) = Len(Header(l)) - 1
  BY HeaderIs
<1> QED
  BY <1>4, <1>5, <1>6

\* What comes again adds nothing new.
LEMMA Repeated ==
  ASSUME NEW S, NEW s \in Seq(S), NEW t \in Seq(S), Repeats(s, t)
  PROVE  /\ Repeats(s \o t, t) /\ Len(s) \in Nat /\ Len(t) \in Nat /\ Len(t) <= Len(s)
         /\ Len(s \o t) = Len(s) + Len(t)
         /\ \A q \in DOMAIN t : Len(s) + q \in DOMAIN (s \o t) /\ (s \o t)[Len(s) + q] = t[q]
<1>1. /\ s \o t \in Seq(S) /\ Len(s \o t) = Len(s) + Len(t) /\ Len(s) \in Nat /\ Len(t) \in Nat
      /\ \A p \in 1..Len(s) + Len(t) : (s \o t)[p] = IF p <= Len(s) THEN s[p] ELSE t[p - Len(s)]
  BY ConcatProperties
<1>2. /\ DOMAIN s = 1..Len(s) /\ DOMAIN t = 1..Len(t)
      /\ DOMAIN (s \o t) = 1..Len(s) + Len(t)
  BY <1>1
<1>3. \A q \in DOMAIN t : q \in DOMAIN s /\ s[q] = t[q]
  BY DEF Repeats
<1>4. Len(t) <= Len(s)
  BY <1>1, <1>2, <1>3
<1>5. ASSUME NEW q \in DOMAIN t
      PROVE  /\ q \in DOMAIN (s \o t) /\ (s \o t)[q] = t[q]
             /\ Len(s) + q \in DOMAIN (s \o t) /\ (s \o t)[Len(s) + q] = t[q]
  <2>1. q \in 1..Len(s) + Len(t) /\ q <= Len(s) /\ s[q] = t[q]
    BY <1>1, <1>2, <1>3
  <2>2. /\ Len(s) + q \in 1..Len(s) + Len(t) /\ ~(Len(s) + q <= Len(s))
        /\ (Len(s) + q) - Len(s) = q
    BY <1>1, <1>2
  <2> QED
    BY <1>1, <1>2, <2>1, <2>2
<1>6. ASSUME NEW p \in DOMAIN (s \o t) PROVE \E q \in DOMAIN t : (s \o t)[p] = t[q]
  <2>1. CASE p <= Len(s)
    <3>1. p \in DOMAIN s /\ (s \o t)[p] = s[p]
      BY <1>1, <1>2, <2>1
    <3> QED
      BY <3>1 DEF Repeats
  <2>2. CASE ~(p <= Len(s))
    <3>1. p - Len(s) \in DOMAIN t /\ (s \o t)[p] = t[p - Len(s)]
      BY <1>1, <1>2, <2>2
    <3> QED
      BY <3>1
  <2> QED
    BY <2>1, <2>2
<1> QED
  BY <1>1, <1>4, <1>5, <1>6 DEF Repeats

\* Loaded on top of itself, a file whose rows do not reach the places of the second header
\* changes nothing.
LEMMA LoadsAgain ==
  ASSUME NEW file \in Files, layout \in Layouts, header \in Seq(Texts), rows \in Seq(Seq(Texts)),
         NEW l, l = [file |-> file, layout |-> layout], HasHeader(l), IsNarrow(l), HoldsTable(l),
         Loading(file, header, rows, fieldPlace, rowPlace)
  PROVE  HoldsTable(l)'
<1> DEFINE top == HeaderRead(file, layout)
           new == RowsRead(file, layout)
           h == header \o top
           rs == rows \o new
           S == PlacesOf(layout.keyField, h)
           keyed == {r \in DOMAIN rs : GetFieldByIndex(rs[r], Max(S)) # NULL}
<1>1. l \in Loads /\ l.file = file /\ l.layout = layout
  BY DEF Loads
<1>2. top \in Seq(Texts) /\ new \in Seq(Seq(Texts))
  BY HeaderOfTexts, RowsAre
<1>3. /\ Repeats(header, top) /\ Repeats(rows, new)
      /\ fieldPlace = FieldPlaces(l) /\ rowPlace = RowPlaces(l)
  BY <1>1 DEF HoldsTable
<1>4. /\ KeyColumn(l) \in DOMAIN top /\ top[KeyColumn(l)] = layout.keyField
      /\ \A r \in DOMAIN new : new[r] \in Seq(Texts) /\ Len(new[r]) <= Len(top)
  BY <1>1, HeaderIs, RowsAreNarrow
<1> HIDE DEF top, new
<1>5. /\ Repeats(h, top) /\ Len(header) \in Nat /\ Len(top) \in Nat /\ Len(top) <= Len(header)
      /\ Len(h) = Len(header) + Len(top) /\ h \in Seq(Texts)
      /\ \A q \in DOMAIN top : Len(header) + q \in DOMAIN h /\ h[Len(header) + q] = top[q]
  BY <1>2, <1>3, Repeated
<1>6. Repeats(rs, new)
  BY <1>2, <1>3, Repeated
<1> HIDE DEF h, rs
<1>7. S # {} /\ Max(S) \in Nat /\ Max(S) > Len(header)
  <2>1. Len(header) + KeyColumn(l) \in S /\ KeyColumn(l) \in 1..Len(top)
    BY <1>2, <1>4, <1>5 DEF PlacesOf
  <2>2. S \in SUBSET (1..Len(h)) /\ Len(h) \in Nat
    BY <1>5 DEF PlacesOf
  <2> HIDE DEF S
  <2>3. Max(S) \in S /\ Len(header) + KeyColumn(l) <= Max(S)
    BY <2>1, <2>2, MaxIn
  <2>4. Max(S) \in 1..Len(h)
    BY <2>2, <2>3
  <2> QED
    BY <1>5, <2>1, <2>3, <2>4
<1>8. keyed = {}
  <2>1. ASSUME NEW r \in DOMAIN rs PROVE Max(S) \notin DOMAIN rs[r]
    <3>1. PICK q \in DOMAIN new : rs[r] = new[q]
      BY <1>6 DEF Repeats
    <3>2. rs[r] \in Seq(Texts) /\ Len(rs[r]) <= Len(top) /\ Len(rs[r]) \in Nat
      BY <1>4, <3>1
    <3> HIDE DEF S
    <3> QED
      BY <1>5, <1>7, <3>2
  <2> QED
    BY <2>1 DEF GetFieldByIndex
<1>9. /\ header' = h /\ rows' = rs
      /\ fieldPlace' = Inserted(fieldPlace, [f \in {h[p] : p \in DOMAIN h} |-> Min(PlacesOf(f, h))])
      /\ \E G : DOMAIN G = {} /\ rowPlace' = Inserted(rowPlace, G)
  <2> DEFINE RowsOf(k) == {r \in keyed : KeyOf[rs[r][Max(S)]] = k}
             G == [k \in {KeyOf[rs[r][Max(S)]] : r \in keyed} |-> Min(RowsOf(k))]
  <2>1. /\ header' = h /\ rows' = rs /\ rowPlace' = Inserted(rowPlace, G)
        /\ fieldPlace' = Inserted(fieldPlace, [f \in {h[p] : p \in DOMAIN h} |-> Min(PlacesOf(f, h))])
    BY <1>7 DEF Loading, h, rs, top, new
  <2>2. DOMAIN G = {}
    BY <1>8
  <2> QED
    BY <2>1, <2>2
<1>10. ASSUME NEW F, F = [x \in DOMAIN F |-> F[x]], NEW G, DOMAIN G \subseteq DOMAIN F
       PROVE  Inserted(F, G) = F
  BY <1>10 DEF Inserted
<1>11. rowPlace' = rowPlace
  <2>1. rowPlace = [x \in DOMAIN rowPlace |-> rowPlace[x]]
    BY <1>3 DEF RowPlaces
  <2> QED
    BY <1>9, <1>10, <2>1
<1>12. fieldPlace' = fieldPlace
  <2>1. /\ fieldPlace = [x \in DOMAIN fieldPlace |-> fieldPlace[x]]
        /\ DOMAIN fieldPlace = {top[p] : p \in DOMAIN top}
    BY <1>1, <1>3 DEF FieldPlaces, top
  <2> PICK G : G = [f \in {h[p] : p \in DOMAIN h} |-> Min(PlacesOf(f, h))]
    OBVIOUS
  <2>2. DOMAIN G \subseteq DOMAIN fieldPlace
    BY <1>5, <2>1 DEF Repeats
  <2> QED
    BY <1>9, <1>10, <2>1, <2>2
<1> QED
  BY <1>1, <1>3, <1>5, <1>6, <1>9, <1>11, <1>12 DEF HoldsTable, top, new

-----------------------------------------------------------------------------
(* The values of a configuration *)

\* What the first conversion of a value can have been, NULL if there was none
Firsts == (Kinds \ {"longlong"}) \cup {NULL}

\* A row that was found is one of those there are, and its values are one for each cell.
IsEntry(e, rs) == /\ e = [row |-> e.row, live |-> TRUE, first |-> e.first]
                  /\ e.row \in DOMAIN rs
                  /\ e.first \in [DOMAIN e.first -> Firsts]
                  /\ e.first # <<>> => DOMAIN e.first = DOMAIN rs[e.row]

\* An entry with other values
LEMMA FirstReplaced ==
  ASSUME NEW e, NEW rs, IsEntry(e, rs), NEW values
  PROVE  /\ [e EXCEPT !.first = values] = [row |-> e.row, live |-> TRUE, first |-> values]
         /\ [e EXCEPT !.first = values].first = values
         /\ [e EXCEPT !.first = values].row = e.row
<1>1. PICK r, f : r = e.row /\ f = e.first
  OBVIOUS
<1>2. e = [row |-> r, live |-> TRUE, first |-> f]
  BY <1>1 DEF IsEntry
<1>3. e \in [row : {r}, live : {TRUE}, first : {f}]
  BY <1>2
<1>4. PICK new : new = [e EXCEPT !.first = values]
  OBVIOUS
<1>5. new \in [row : {r}, live : {TRUE}, first : {values}]
  BY <1>3, <1>4
<1>6. new = [row |-> r, live |-> TRUE, first |-> values]
  BY <1>5
<1> QED
  BY <1>1, <1>4, <1>6

IsCache(c, rs) == /\ c = [k \in DOMAIN c |-> c[k]]
                  /\ \A k \in DOMAIN c : IsEntry(c[k], rs)

TableInv == /\ layout \in Layouts /\ rows \in Seq(Seq(Texts))
            /\ \A k \in DOMAIN rowPlace : rowPlace[k] \in DOMAIN rows
            /\ IsCache(cache, rows)

\* The value at place p of key k exists.
Has(c, k, p) == k \in DOMAIN c /\ p \in DOMAIN c[k].first

\* A pointer to a value that exists points to one.
HeldInv == /\ held = [key |-> held.key, place |-> held.place, live |-> held.live]
           /\ held.live => Has(cache, held.key, held.place)

\* What was answered can be read off the first conversion, which has been made by then.
AnswerInv == answer # <<>> =>
  \/ answer[3] = "longlong" /\ answer[4] = "zero"
  \/ /\ answer[3] \in Kinds \ {"longlong"} /\ Has(cache, answer[1], answer[2])
     /\ cache[answer[1]].first[answer[2]] # NULL
     /\ answer[4] = IF cache[answer[1]].first[answer[2]] = answer[3] THEN "number" ELSE "zero"

ValuesInv == TableInv /\ HeldInv /\ AnswerInv

\* The inductive invariant says what the property asks for.
LEMMA InvAnswers == ValuesInv => AnswersStay
<1> SUFFICES ASSUME ValuesInv, answer # <<>>
             PROVE  AnswerOf(answer[1], answer[2], answer[3]) = answer[4]
  BY DEF AnswersStay
<1> PICK k, p, kind : k = answer[1] /\ p = answer[2] /\ kind = answer[3]
  OBVIOUS
<1> DEFINE first == IF k \in DOMAIN cache /\ p \in DOMAIN cache[k].first
                    THEN cache[k].first[p] ELSE NULL
<1>1. first \in Firsts
  BY DEF ValuesInv, TableInv, IsCache, IsEntry, Firsts
<1>2. FirstKind(k, p, kind) = IF first = NULL /\ kind # "longlong" THEN kind ELSE first
  BY DEF FirstKind
<1>3. CASE kind = "longlong" /\ answer[4] = "zero"
  BY <1>1, <1>2, <1>3 DEF Firsts, NULL, AnswerOf
<1>4. CASE /\ kind \in Kinds \ {"longlong"} /\ Has(cache, k, p) /\ cache[k].first[p] # NULL
           /\ answer[4] = IF cache[k].first[p] = kind THEN "number" ELSE "zero"
  BY <1>2, <1>4 DEF Has, AnswerOf
<1> QED
  BY <1>3, <1>4 DEF ValuesInv, AnswerInv

\* Values that were there are there still, and the conversions that were made.
Stays(c, d) == \A k \in DOMAIN c :
  /\ k \in DOMAIN d
  /\ \A p \in DOMAIN c[k].first :
       /\ p \in DOMAIN d[k].first
       /\ c[k].first[p] # NULL => d[k].first[p] = c[k].first[p]

\* So what was answered remains to be read.
LEMMA AnswerKept ==
  ASSUME AnswerInv, Stays(cache, cache'), answer' = answer PROVE AnswerInv'
BY DEF AnswerInv, Stays, Has

\* New rows behind the old ones leave the rows found as they are.
LEMMA CacheOfMore ==
  ASSUME NEW c, NEW rs, NEW more, IsCache(c, rs),
         \A r \in DOMAIN rs : r \in DOMAIN more /\ more[r] = rs[r]
  PROVE  IsCache(c, more)
BY DEF IsCache, IsEntry

\* Looking a key up adds its row to those that were found before, or none.
LEMMA RowFound ==
  ASSUME TableInv, NEW key
  PROVE  IsCache(GetDataRow(key), rows) /\ Stays(cache, GetDataRow(key))
<1> DEFINE new == [row |-> rowPlace[key], live |-> TRUE, first |-> <<>>]
           add == [k \in {key} |-> new]
<1>1. CASE key \notin DOMAIN cache /\ key \in DOMAIN rowPlace
  <2>1. <<>> \in [DOMAIN <<>> -> Firsts]
    BY EmptySeq
  <2>2. IsEntry(new, rows)
    BY <1>1, <2>1 DEF IsEntry, TableInv
  <2> HIDE DEF new
  <2>3. GetDataRow(key) = Inserted(cache, add)
    BY <1>1 DEF GetDataRow, new
  <2>4. DOMAIN add = {key} /\ add[key] = new
    OBVIOUS
  <2> HIDE DEF add
  <2>5. Inserted(cache, add) =
          [k \in DOMAIN cache \cup {key} |-> IF k \in DOMAIN cache THEN cache[k] ELSE add[k]]
    BY <2>4 DEF Inserted
  <2> QED
    BY <2>2, <2>3, <2>4, <2>5 DEF TableInv, IsCache, Stays
<1>2. CASE ~(key \notin DOMAIN cache /\ key \in DOMAIN rowPlace)
  BY <1>2 DEF GetDataRow, TableInv, Stays
<1> QED
  BY <1>1, <1>2

\* An entry in the place of another
LEMMA EntryChanged ==
  ASSUME NEW c, NEW rs, IsCache(c, rs), NEW key \in DOMAIN c, NEW e, IsEntry(e, rs)
  PROVE  /\ IsCache([c EXCEPT ![key] = e], rs)
         /\ [c EXCEPT ![key] = e][key] = e
         /\ DOMAIN [c EXCEPT ![key] = e] = DOMAIN c
         /\ \A k \in DOMAIN c : k # key => [c EXCEPT ![key] = e][k] = c[k]
BY DEF IsCache

\* No value has been got, and none was asked for.
LEMMA NothingFound ==
  ASSUME cache' = EmptyMap, held' = [held EXCEPT !.live = FALSE], answer' = <<>>, HeldInv
  PROVE  (\A rs : IsCache(EmptyMap, rs)) /\ HeldInv' /\ AnswerInv'
<1>1. DOMAIN EmptyMap = {} /\ EmptyMap = [k \in {} |-> EmptyMap[k]]
  BY DEF EmptyMap
<1>2. held' = [key |-> held.key, place |-> held.place, live |-> FALSE]
  BY DEF HeldInv
<1> QED
  BY <1>1, <1>2 DEF IsCache, HeldInv, AnswerInv

\* What the host does to the table
LEMMA TableStep ==
  ASSUME ValuesInv, HostLoads \/ ClearConfig \/ (\E l \in Layouts : SetLayout(l))
  PROVE  ValuesInv'
<1>1. TableInv /\ HeldInv /\ AnswerInv /\ layout \in Layouts
  BY DEF ValuesInv, TableInv
<1>2. DOMAIN EmptyMap = {} /\ <<>> \in Seq(Seq(Texts)) /\ DOMAIN <<>> = {}
  BY EmptySeq DEF EmptyMap
<1>3. ASSUME NEW f \in Files, Load(f) PROVE ValuesInv'
  <2>1. /\ Loading(f, header, rows, fieldPlace, rowPlace) /\ cache' = cache /\ held' = held
        /\ answer' = answer /\ layout' = layout
    BY <1>3 DEF Load
  <2>2. /\ rows' \in Seq(Seq(Texts))
        /\ \A r \in DOMAIN rows : r \in DOMAIN rows' /\ rows'[r] = rows[r]
        /\ \A k \in DOMAIN rowPlace' : rowPlace'[k] \in DOMAIN rows'
    BY <1>1, <2>1, RowsLoaded DEF TableInv
  <2>3. IsCache(cache, rows')
    BY <1>1, <2>2, CacheOfMore DEF TableInv
  <2>4. TableInv'
    BY <1>1, <2>1, <2>2, <2>3 DEF TableInv
  <2> QED
    BY <1>1, <2>1, <2>4 DEF ValuesInv, HeldInv, AnswerInv
<1>4. ASSUME NEW f \in Files, Reload(f) PROVE ValuesInv'
  <2>1. /\ Loading(f, <<>>, <<>>, EmptyMap, EmptyMap) /\ cache' = EmptyMap /\ answer' = <<>>
        /\ held' = [held EXCEPT !.live = FALSE] /\ layout' = layout
    BY <1>4 DEF Reload, Forgotten
  <2>2. /\ rows' \in Seq(Seq(Texts))
        /\ \A k \in DOMAIN rowPlace' : rowPlace'[k] \in DOMAIN rows'
    BY <1>1, <1>2, <2>1, RowsLoaded
  <2>3. IsCache(EmptyMap, rows') /\ HeldInv' /\ AnswerInv'
    BY <1>1, <2>1, NothingFound
  <2> QED
    BY <1>1, <2>1, <2>2, <2>3 DEF ValuesInv, TableInv
<1>5. CASE ClearConfig
  <2>1. /\ cache' = EmptyMap /\ answer' = <<>> /\ held' = [held EXCEPT !.live = FALSE]
        /\ layout' = layout /\ rows' = <<>> /\ rowPlace' = EmptyMap
    BY <1>5 DEF ClearConfig, Forgotten
  <2>2. IsCache(EmptyMap, rows') /\ HeldInv' /\ AnswerInv'
    BY <1>1, <2>1, NothingFound
  <2> QED
    BY <1>1, <1>2, <2>1, <2>2 DEF ValuesInv, TableInv
<1>6. ASSUME NEW l \in Layouts, SetLayout(l) PROVE ValuesInv'
  BY <1>1, <1>6 DEF SetLayout, ValuesInv, TableInv, HeldInv, AnswerInv
<1> QED
  BY <1>3, <1>4, <1>5, <1>6 DEF HostLoads

\* GetData: at most a row is found.
LEMMA GetDataStep ==
  ASSUME ValuesInv, NEW key, NEW field, GetData(key, field) PROVE ValuesInv'
<1>1. TableInv /\ HeldInv /\ AnswerInv
  BY DEF ValuesInv
<1>2. IsCache(cache', rows) /\ Stays(cache, cache')
  BY <1>1, RowFound DEF GetData
<1>3. rows' = rows /\ rowPlace' = rowPlace /\ layout' = layout /\ held' = held /\ answer' = answer
  BY DEF GetData
<1>4. TableInv'
  BY <1>1, <1>2, <1>3 DEF TableInv
<1>5. HeldInv'
  BY <1>1, <1>2, <1>3 DEF HeldInv, Stays, Has
<1>6. AnswerInv'
  BY <1>1, <1>2, <1>3, AnswerKept
<1> QED
  BY <1>4, <1>5, <1>6 DEF ValuesInv

\* GetHSValue: the values of the row are made if it has none, one for each cell.
LEMMA GetHSValueStep ==
  ASSUME ValuesInv, NEW key, NEW field, GetHSValue(key, field) PROVE ValuesInv'
<1> DEFINE found == GetDataRow(key)
           e == found[key]
           made == [e EXCEPT !.first = ValuesOf(e)]
<1>1. TableInv /\ HeldInv /\ AnswerInv
  BY DEF ValuesInv
<1>2. IsCache(found, rows) /\ Stays(cache, found)
  BY <1>1, RowFound
<1>3. /\ rows' = rows /\ rowPlace' = rowPlace /\ layout' = layout /\ answer' = answer
      /\ cache' = IF key \in DOMAIN found /\ e.live
                  THEN [found EXCEPT ![key].first = ValuesOf(e)] ELSE found
      /\ held' = IF GetValue(key, field) \in {NULL, "freed"} THEN Nothing
                 ELSE [key |-> key, place |-> fieldPlace[field], live |-> TRUE]
  BY DEF GetHSValue
<1>4. GetValue(key, field) \notin {NULL, "freed"} =>
        key \in DOMAIN found /\ fieldPlace[field] \in DOMAIN rows[e.row]
  BY <1>2 DEF GetValue, GetFieldByIndex, IsCache, IsEntry
<1> HIDE DEF found
<1>5. CASE key \in DOMAIN found
  <2>1. IsEntry(e, rows)
    BY <1>2, <1>5 DEF IsCache
  <2> HIDE DEF e
  <2>2. /\ made = [row |-> e.row, live |-> TRUE, first |-> ValuesOf(e)]
        /\ ValuesOf(e) \in [DOMAIN rows[e.row] -> Firsts]
        /\ \A p \in DOMAIN e.first : p \in DOMAIN ValuesOf(e) /\ ValuesOf(e)[p] = e.first[p]
    <3>1. [p \in DOMAIN rows[e.row] |-> NULL] \in [DOMAIN rows[e.row] -> Firsts]
      BY DEF Firsts
    <3>2. made = [row |-> e.row, live |-> TRUE, first |-> ValuesOf(e)]
      BY <2>1, FirstReplaced
    <3>3. CASE e.first = <<>>
      <4>1. DOMAIN e.first = {}
        BY <3>3
      <4>2. ValuesOf(e) = [p \in DOMAIN rows[e.row] |-> NULL]
        BY <3>3 DEF ValuesOf
      <4> QED
        BY <3>1, <3>2, <4>1, <4>2
    <3>4. CASE e.first # <<>>
      <4>1. ValuesOf(e) = e.first
        BY <3>4 DEF ValuesOf
      <4>2. e.first \in [DOMAIN rows[e.row] -> Firsts]
        BY <2>1, <3>4 DEF IsEntry
      <4> QED
        BY <3>2, <4>1, <4>2
    <3> QED
      BY <3>3, <3>4
  <2>3. IsEntry(made, rows) /\ made.first = ValuesOf(e) /\ made.row = e.row
    BY <2>1, <2>2 DEF IsEntry
  <2>4. cache' = [found EXCEPT ![key] = made]
    <3>1. e.live
      BY <2>1 DEF IsEntry
    <3> QED
      BY <1>3, <1>5, <3>1 DEF e
  <2>5. e = found[key]
    BY DEF e
  <2> HIDE DEF made
  <2>6. /\ IsCache(cache', rows) /\ cache'[key] = made /\ DOMAIN cache' = DOMAIN found
        /\ \A k \in DOMAIN found : k # key => cache'[k] = found[k]
    BY <1>2, <1>5, <2>3, <2>4, EntryChanged
  <2>7. Stays(cache, cache')
    <3>1. Stays(found, cache')
      BY <2>2, <2>3, <2>5, <2>6 DEF Stays
    <3> QED
      BY <1>2, <3>1 DEF Stays
  <2>8. TableInv' /\ AnswerInv'
    BY <1>1, <1>3, <2>6, <2>7, AnswerKept DEF TableInv
  <2>9. HeldInv'
    <3>1. Has(cache', key, fieldPlace[field]) \/ GetValue(key, field) \in {NULL, "freed"}
      BY <1>4, <1>5, <2>2, <2>3, <2>6 DEF Has
    <3>2. CASE GetValue(key, field) \in {NULL, "freed"}
      BY <1>3, <3>2 DEF HeldInv, Nothing
    <3>3. CASE GetValue(key, field) \notin {NULL, "freed"}
      BY <1>3, <3>1, <3>3 DEF HeldInv
    <3> QED
      BY <3>2, <3>3
  <2> QED
    BY <2>8, <2>9 DEF ValuesInv
<1>6. CASE key \notin DOMAIN found
  <2>1. cache' = found /\ held' = Nothing
    BY <1>3, <1>4, <1>6
  <2>2. HeldInv'
    BY <2>1 DEF HeldInv, Nothing
  <2>3. TableInv' /\ AnswerInv'
    BY <1>1, <1>2, <1>3, <2>1, AnswerKept DEF TableInv
  <2> QED
    BY <2>2, <2>3 DEF ValuesInv
<1> QED
  BY <1>5, <1>6

\* AsKind: the first conversion of the value held is made, if it has not been.
LEMMA AsKindStep ==
  ASSUME ValuesInv, NEW kind \in Kinds, AsKind(kind) PROVE ValuesInv'
<1>1. TableInv /\ HeldInv /\ AnswerInv
  BY DEF ValuesInv
<1>2. rows' = rows /\ rowPlace' = rowPlace /\ layout' = layout /\ held' = held
  BY DEF AsKind
<1>3. CASE ~held.live
  <2>1. cache' = cache /\ answer' = answer
    BY <1>3 DEF AsKind
  <2> QED
    BY <1>1, <1>2, <2>1 DEF ValuesInv, TableInv, HeldInv, AnswerInv
<1>4. CASE held.live
  <2> PICK k, p, f : k = held.key /\ p = held.place /\ f = FirstKind(k, p, kind)
    OBVIOUS
  <2> DEFINE e == cache[k]
             made == [e EXCEPT !.first = [e.first EXCEPT ![p] = f]]
  <2>1. /\ cache' = [cache EXCEPT ![k].first[p] = f]
        /\ answer' \in {answer, <<k, p, kind, AnswerOf(k, p, kind)>>}
        /\ k \in DOMAIN cache /\ p \in DOMAIN e.first
    BY <1>1, <1>4 DEF AsKind, HeldInv, Has
  <2>2. IsEntry(e, rows)
    BY <1>1, <2>1 DEF TableInv, IsCache
  <2>3. /\ f = IF e.first[p] = NULL /\ kind # "longlong" THEN kind ELSE e.first[p]
        /\ AnswerOf(k, p, kind) = IF f = kind THEN "number" ELSE "zero"
    BY <2>1 DEF FirstKind, AnswerOf
  <2>4. e.first[p] \in Firsts /\ f \in Firsts
    BY <2>1, <2>2, <2>3 DEF IsEntry, Firsts
  <2>5. cache' = [cache EXCEPT ![k] = made]
    BY <2>1
  <2> HIDE DEF e
  <2>6. /\ made = [row |-> e.row, live |-> TRUE, first |-> [e.first EXCEPT ![p] = f]]
        /\ made.first = [e.first EXCEPT ![p] = f] /\ made.row = e.row
    BY <2>2, FirstReplaced
  <2>7. /\ DOMAIN made.first = DOMAIN e.first /\ made.first[p] = f
        /\ made.first \in [DOMAIN e.first -> Firsts]
        /\ \A q \in DOMAIN e.first : q # p => made.first[q] = e.first[q]
    BY <2>1, <2>2, <2>4, <2>6 DEF IsEntry, e
  <2>8. IsEntry(made, rows)
    <3>1. e.first # <<>>
      <4>1. DOMAIN <<>> = {}
        OBVIOUS
      <4> QED
        BY <2>1, <4>1 DEF e
    <3> QED
      BY <2>2, <2>6, <2>7, <3>1 DEF IsEntry
  <2> HIDE DEF made
  <2>9. /\ IsCache(cache', rows) /\ cache'[k] = made /\ DOMAIN cache' = DOMAIN cache
        /\ \A j \in DOMAIN cache : j # k => cache'[j] = cache[j]
    <3>1. IsCache(cache, rows) /\ k \in DOMAIN cache
      BY <1>1, <2>1 DEF TableInv
    <3> PICK new : new = made
      OBVIOUS
    <3>2. IsEntry(new, rows) /\ cache' = [cache EXCEPT ![k] = new]
      BY <2>5, <2>8
    <3>3. /\ IsCache([cache EXCEPT ![k] = new], rows) /\ [cache EXCEPT ![k] = new][k] = new
          /\ DOMAIN [cache EXCEPT ![k] = new] = DOMAIN cache
          /\ \A j \in DOMAIN cache : j # k => [cache EXCEPT ![k] = new][j] = cache[j]
      BY <3>1, <3>2, EntryChanged
    <3> QED
      BY <3>2, <3>3
  <2>10. Stays(cache, cache')
    <3>1. \A q \in DOMAIN e.first : e.first[q] # NULL => made.first[q] = e.first[q]
      BY <2>3, <2>7
    <3> QED
      BY <2>7, <2>9, <3>1 DEF Stays, e
  <2>11. TableInv' /\ HeldInv'
    BY <1>1, <1>2, <2>9, <2>10 DEF TableInv, HeldInv, Stays, Has
  <2>12. AnswerInv'
    <3>1. CASE answer' = answer
      BY <1>1, <2>10, <3>1, AnswerKept
    <3>2. CASE answer' = <<k, p, kind, IF f = kind THEN "number" ELSE "zero">>
      <4>1. /\ answer'[1] = k /\ answer'[2] = p /\ answer'[3] = kind
            /\ answer'[4] = IF f = kind THEN "number" ELSE "zero"
        BY <3>2
      <4>2. Has(cache', k, p) /\ cache'[k].first[p] = f
        BY <2>1, <2>7, <2>9 DEF Has, e
      <4>3. CASE kind = "longlong"
        <5>1. f # kind
          BY <2>4, <4>3 DEF Firsts, NULL
        <5> QED
          BY <4>1, <4>3, <5>1 DEF AnswerInv
      <4>4. CASE kind # "longlong"
        <5>1. f # NULL
          BY <2>3, <4>4, ConfigAssumption DEF NULL
        <5> QED
          BY <4>1, <4>2, <4>4, <5>1 DEF AnswerInv
      <4> QED
        BY <4>3, <4>4
    <3> QED
      BY <2>1, <2>3, <3>1, <3>2
  <2> QED
    BY <2>11, <2>12 DEF ValuesInv
<1> QED
  BY <1>3, <1>4

\* Every step of the configuration keeps the values and what was answered.
LEMMA ConfigStep == ASSUME ValuesInv, [ConfigNext]_configVars PROVE ValuesInv'
<1>1. CASE HostLoads \/ ClearConfig \/ \E l \in Layouts : SetLayout(l)
  BY <1>1, TableStep
<1>2. CASE HostReads
  BY <1>2, GetDataStep, GetHSValueStep, AsKindStep DEF HostReads
<1>3. CASE UNCHANGED configVars
  BY <1>3 DEF configVars, ValuesInv, TableInv, HeldInv, AnswerInv, Has
<1> QED
  BY <1>1, <1>2, <1>3 DEF ConfigNext

\* At first nothing is loaded.
LEMMA ConfigStart == ConfigInit => ValuesInv
<1>1. DOMAIN EmptyMap = {} /\ EmptyMap = [k \in {} |-> EmptyMap[k]]
  BY DEF EmptyMap
<1>2. <<>> \in Seq(Seq(Texts))
  BY EmptySeq
<1>3. Nothing = [key |-> Nothing.key, place |-> Nothing.place, live |-> Nothing.live]
      /\ ~Nothing.live
  BY DEF Nothing
<1> QED
  BY <1>1, <1>2, <1>3 DEF ConfigInit, ValuesInv, TableInv, IsCache, HeldInv, AnswerInv

-----------------------------------------------------------------------------
(* Look-ups *)

\* A row that was found is the one its key has.
IsPlaced(c) == \A k \in DOMAIN c : k \in DOMAIN rowPlace /\ c[k].row = rowPlace[k]

\* What the tables hold, as long as it is one file or nothing
LoadedInv == /\ loaded \in Seq(Loads) /\ header \in Seq(Texts) /\ IsPlaced(cache)
             /\ loaded = <<>> => /\ header = <<>> /\ rows = <<>>
                                 /\ fieldPlace = EmptyMap /\ rowPlace = EmptyMap
             /\ OneFile(loaded) => HoldsTable(loaded[1])

\* A load on top: one file again, if it is the same, and the keys keep their rows.
LEMMA LoadKeeps ==
  ASSUME ValuesInv, LoadedInv, NEW file \in Files, Load(file) PROVE LoadedInv'
<1> PICK l : l = [file |-> file, layout |-> layout]
  OBVIOUS
<1>1. /\ Loading(file, header, rows, fieldPlace, rowPlace) /\ cache' = cache
      /\ loaded' = Append(loaded, l) /\ loaded \in Seq(Loads) /\ header \in Seq(Texts)
      /\ layout \in Layouts /\ rows \in Seq(Seq(Texts)) /\ IsPlaced(cache)
  BY DEF Load, LoadedInv, ValuesInv, TableInv
<1>2. l \in Loads
  BY <1>1 DEF Loads
<1>3. header' \in Seq(Texts)
  <2> PICK top : top = HeaderRead(file, layout)
    OBVIOUS
  <2>1. top \in Seq(Texts) /\ header \in Seq(Texts)
    BY <1>1, HeaderOfTexts
  <2>2. header' = header \o top
    BY <1>1 DEF Loading
  <2>3. header \o top \in Seq(Texts)
    BY <2>1, ConcatProperties
  <2> QED
    BY <2>2, <2>3
<1>4. IsPlaced(cache)'
  <2>1. \A k \in DOMAIN rowPlace : k \in DOMAIN rowPlace' /\ rowPlace'[k] = rowPlace[k]
    BY <1>1 DEF Loading, Inserted
  <2> QED
    BY <1>1, <2>1 DEF IsPlaced
<1> PICK m : m = loaded'
  OBVIOUS
<1>5. /\ m \in Seq(Loads) /\ m # <<>> /\ Len(m) = Len(loaded) + 1
      /\ Len(loaded) \in Nat /\ m[Len(loaded) + 1] = l
      /\ \A n \in DOMAIN loaded : n \in DOMAIN m /\ m[n] = loaded[n]
      /\ DOMAIN m = 1..Len(loaded) + 1
  <2>1. m = Append(loaded, l) /\ loaded \in Seq(Loads)
    BY <1>1
  <2>2. m \in Seq(Loads) /\ Len(m) = Len(loaded) + 1 /\ Len(loaded) \in Nat
    BY <1>2, <2>1
  <2>3. /\ m[Len(loaded) + 1] = l /\ \A n \in 1..Len(loaded) : m[n] = loaded[n]
        /\ DOMAIN m = 1..Len(loaded) + 1 /\ DOMAIN loaded = 1..Len(loaded)
    BY <1>2, <2>1, <2>2
  <2>4. m # <<>>
    BY <2>2
  <2> QED
    BY <2>2, <2>3, <2>4
<1>6. ASSUME OneFile(m) PROVE m[1] = l /\ HoldsTable(l)'
  <2>1. /\ HasHeader(m[1]) /\ \A n \in DOMAIN m : m[n] = m[1]
        /\ Len(m) > 1 => IsNarrow(m[1])
    BY <1>6 DEF OneFile
  <2>2. m[1] = l
    BY <1>5, <2>1
  <2>3. CASE loaded = <<>>
    <3>1. Loading(file, <<>>, <<>>, EmptyMap, EmptyMap)
      BY <1>1, <2>3 DEF LoadedInv
    <3>2. HoldsTable(l)'
      BY <1>1, <2>1, <2>2, <3>1, LoadsAfresh
    <3> QED
      BY <2>2, <3>2
  <2>4. CASE loaded # <<>>
    <3>1. Len(loaded) > 0 /\ loaded[1] = m[1] /\ IsNarrow(l)
      <4>1. Len(loaded) > 0
        BY <1>1, <2>4
      <4>2. 1 \in DOMAIN loaded /\ Len(m) > 1
        BY <1>1, <1>5, <4>1
      <4> QED
        BY <1>5, <2>1, <2>2, <4>1, <4>2
    <3>2. OneFile(loaded)
      <4>1. HasHeader(loaded[1]) /\ IsNarrow(loaded[1])
        BY <2>1, <2>2, <3>1
      <4>2. \A n \in DOMAIN loaded : loaded[n] = loaded[1]
        BY <1>5, <2>1, <3>1
      <4> QED
        BY <2>4, <4>1, <4>2 DEF OneFile
    <3>3. HoldsTable(l)
      BY <2>2, <3>1, <3>2 DEF LoadedInv
    <3>4. HoldsTable(l)'
      BY <1>1, <2>1, <2>2, <3>1, <3>3, LoadsAgain
    <3> QED
      BY <2>2, <3>4
  <2> QED
    BY <2>3, <2>4
<1>7. OneFile(loaded') => HoldsTable(loaded[1])'
  BY <1>6 DEF HoldsTable
<1> QED
  BY <1>3, <1>4, <1>5, <1>7 DEF LoadedInv, OneFile

\* A load after Clear()
LEMMA ReloadKeeps ==
  ASSUME ValuesInv, LoadedInv, NEW file \in Files, Reload(file) PROVE LoadedInv'
<1> PICK l : l = [file |-> file, layout |-> layout]
  OBVIOUS
<1>1. /\ Loading(file, <<>>, <<>>, EmptyMap, EmptyMap) /\ cache' = EmptyMap
      /\ loaded' = <<l>> /\ layout \in Layouts
  BY DEF Reload, Forgotten, ValuesInv, TableInv
<1>2. l \in Loads
  BY <1>1 DEF Loads
<1>3. header' \in Seq(Texts)
  <2>1. HeaderRead(file, layout) \in Seq(Texts)
    BY <1>1, HeaderOfTexts
  <2>2. header' = <<>> \o HeaderRead(file, layout)
    BY <1>1 DEF Loading
  <2> QED
    BY <2>1, <2>2
<1>4. IsPlaced(cache)'
  BY <1>1 DEF IsPlaced, EmptyMap
<1>5. loaded' \in Seq(Loads) /\ loaded' # <<>> /\ loaded'[1] = l
  BY <1>1, <1>2
<1>6. OneFile(loaded') => HoldsTable(l)'
  <2>1. OneFile(loaded') => HasHeader(l)
    BY <1>5 DEF OneFile
  <2> QED
    BY <1>1, <2>1, LoadsAfresh
<1>7. OneFile(loaded') => HoldsTable(loaded[1])'
  BY <1>5, <1>6 DEF HoldsTable
<1> QED
  BY <1>3, <1>4, <1>5, <1>7 DEF LoadedInv, OneFile

\* What is found is placed.
LEMMA FoundIsPlaced == ASSUME IsPlaced(cache), NEW key PROVE IsPlaced(GetDataRow(key))
<1> DEFINE add == [k \in {key} |-> [row |-> rowPlace[key], live |-> TRUE, first |-> <<>>]]
<1>1. CASE key \notin DOMAIN cache /\ key \in DOMAIN rowPlace
  <2>1. GetDataRow(key) = Inserted(cache, add)
    BY <1>1 DEF GetDataRow
  <2>2. DOMAIN add = {key} /\ add[key].row = rowPlace[key]
    OBVIOUS
  <2> HIDE DEF add
  <2> QED
    BY <1>1, <2>1, <2>2 DEF Inserted, IsPlaced
<1>2. CASE ~(key \notin DOMAIN cache /\ key \in DOMAIN rowPlace)
  BY <1>2 DEF GetDataRow
<1> QED
  BY <1>1, <1>2

\* Other values do not change which row it is.
LEMMA ValuesPlaced ==
  ASSUME NEW c, NEW rs, IsCache(c, rs), IsPlaced(c), NEW key \in DOMAIN c, NEW values
  PROVE  IsPlaced([c EXCEPT ![key].first = values])
<1> PICK e : e = [c[key] EXCEPT !.first = values]
  OBVIOUS
<1>1. e.row = c[key].row
  BY FirstReplaced DEF IsCache
<1>2. [c EXCEPT ![key].first = values] = [c EXCEPT ![key] = e]
  OBVIOUS
<1> QED
  BY <1>1, <1>2 DEF IsPlaced

\* Every step keeps the tables those of the one file loaded.
LEMMA LoadedStep ==
  ASSUME ValuesInv, LoadedInv, [ConfigNext]_configVars PROVE LoadedInv'
<1>1. ASSUME NEW f \in Files, Load(f) \/ Reload(f) PROVE LoadedInv'
  BY <1>1, LoadKeeps, ReloadKeeps
<1>2. CASE ClearConfig
  <2>1. /\ header' = <<>> /\ rows' = <<>> /\ fieldPlace' = EmptyMap /\ rowPlace' = EmptyMap
        /\ cache' = EmptyMap /\ loaded' = <<>>
    BY <1>2 DEF ClearConfig, Forgotten
  <2>2. IsPlaced(cache)'
    BY <2>1 DEF IsPlaced, EmptyMap
  <2> QED
    BY <2>1, <2>2, EmptySeq DEF LoadedInv, OneFile
<1>3. ASSUME IsPlaced(cache'), UNCHANGED <<header, rows, fieldPlace, rowPlace, loaded>>
      PROVE  LoadedInv'
  BY <1>3 DEF LoadedInv, IsPlaced, HoldsTable
<1>4. IsPlaced(cache) /\ IsCache(cache, rows)
  BY DEF LoadedInv, ValuesInv, TableInv
<1>5. ASSUME NEW l \in Layouts, SetLayout(l) PROVE LoadedInv'
  BY <1>3, <1>4, <1>5 DEF SetLayout
<1>6. ASSUME NEW k, NEW f, GetData(k, f) PROVE LoadedInv'
  BY <1>3, <1>4, <1>6, FoundIsPlaced DEF GetData
<1>7. ASSUME NEW k, NEW f, GetHSValue(k, f) PROVE LoadedInv'
  <2> PICK found, values : found = GetDataRow(k) /\ values = ValuesOf(found[k])
    OBVIOUS
  <2>1. IsPlaced(found) /\ IsCache(found, rows)
    BY <1>4, FoundIsPlaced, RowFound DEF ValuesInv
  <2>2. /\ UNCHANGED <<header, rows, fieldPlace, rowPlace, loaded>>
        /\ \/ cache' = found
           \/ k \in DOMAIN found /\ cache' = [found EXCEPT ![k].first = values]
    BY <1>7 DEF GetHSValue
  <2>3. IsPlaced(cache')
    BY <2>1, <2>2, ValuesPlaced
  <2> QED
    BY <1>3, <2>2, <2>3
<1>8. ASSUME NEW kind, AsKind(kind) PROVE LoadedInv'
  <2> PICK k, p, v : k = held.key /\ p = held.place /\ v = FirstKind(held.key, held.place, kind)
    OBVIOUS
  <2> PICK values : values = [cache[k].first EXCEPT ![p] = v]
    OBVIOUS
  <2>1. /\ UNCHANGED <<header, rows, fieldPlace, rowPlace, loaded>>
        /\ \/ cache' = cache
           \/ k \in DOMAIN cache /\ cache' = [cache EXCEPT ![k].first[p] = v]
    BY <1>8 DEF AsKind, ValuesInv, HeldInv, Has
  <2>2. [cache EXCEPT ![k].first[p] = v] = [cache EXCEPT ![k].first = values]
    OBVIOUS
  <2>3. IsPlaced(cache')
    BY <1>4, <2>1, <2>2, ValuesPlaced
  <2> QED
    BY <1>3, <2>1, <2>3
<1>9. CASE UNCHANGED configVars
  BY <1>3, <1>4, <1>9 DEF configVars
<1> QED
  BY <1>1, <1>2, <1>5, <1>6, <1>7, <1>8, <1>9 DEF ConfigNext, HostLoads, HostReads

\* At first nothing is loaded.
LEMMA LoadedStart == ConfigInit => LoadedInv
<1> HAVE ConfigInit
<1>1. /\ header = <<>> /\ rows = <<>> /\ fieldPlace = EmptyMap /\ rowPlace = EmptyMap
      /\ cache = EmptyMap /\ loaded = <<>>
  BY DEF ConfigInit
<1>2. IsPlaced(cache)
  BY <1>1 DEF IsPlaced, EmptyMap
<1> QED
  BY <1>1, <1>2, EmptySeq DEF LoadedInv, OneFile

\* A look-up goes by the places of its key and its field.
LEMMA LookedUp ==
  ASSUME ValuesInv, LoadedInv, NEW k, NEW f
  PROVE  GetValue(k, f) = IF k \in DOMAIN rowPlace /\ f \in DOMAIN fieldPlace
                          THEN GetFieldByIndex(rows[rowPlace[k]], fieldPlace[f]) ELSE NULL
<1> PICK found : found = GetDataRow(k)
  OBVIOUS
<1>1. IsPlaced(found) /\ IsCache(found, rows)
  BY FoundIsPlaced, RowFound DEF LoadedInv, ValuesInv
<1>2. k \in DOMAIN rowPlace => k \in DOMAIN found
  BY DEF GetDataRow, Inserted
<1>3. GetValue(k, f) = CASE k \notin DOMAIN found -> NULL
                         [] k \in DOMAIN found /\ ~found[k].live -> "freed"
                         [] OTHER -> IF f \in DOMAIN fieldPlace
                                     THEN GetFieldByIndex(rows[found[k].row], fieldPlace[f])
                                     ELSE NULL
  BY DEF GetValue
<1>4. CASE k \in DOMAIN found
  <2>1. k \in DOMAIN rowPlace /\ found[k].row = rowPlace[k]
    BY <1>1, <1>4 DEF IsPlaced
  <2>2. found[k].live
    BY <1>1, <1>4 DEF IsCache, IsEntry
  <2> QED
    BY <1>3, <1>4, <2>1, <2>2
<1>5. CASE k \notin DOMAIN found
  BY <1>2, <1>3, <1>5
<1> QED
  BY <1>4, <1>5

\* The place of a field is the first in the header, and no other finds it.
LEMMA PlaceOfField ==
  ASSUME NEW l \in Loads, HasHeader(l), NEW f, NEW h, h = HeaderRead(l.file, l.layout)
  PROVE  /\ f \in DOMAIN FieldPlaces(l) <=> \E p \in DOMAIN h : h[p] = f
         /\ f \in DOMAIN FieldPlaces(l) => /\ FieldPlaces(l)[f] \in DOMAIN h
                                           /\ h[FieldPlaces(l)[f]] = f
<1> DEFINE S == PlacesOf(f, h)
<1>1. /\ DOMAIN FieldPlaces(l) = {h[p] : p \in DOMAIN h}
      /\ f \in DOMAIN FieldPlaces(l) => FieldPlaces(l)[f] = Min(S)
  BY DEF FieldPlaces
<1>2. h \in Seq(Texts)
  BY HeaderIs
<1>3. S \in SUBSET Nat /\ (f \in DOMAIN FieldPlaces(l) => S # {})
  BY <1>1, <1>2 DEF PlacesOf
<1>4. f \in DOMAIN FieldPlaces(l) => Min(S) \in S
  <2> HIDE DEF S
  <2> QED
    BY <1>3, MinIn
<1> QED
  BY <1>1, <1>4 DEF PlacesOf

\* The place of a key is the first row that has it.
LEMMA PlaceOfKey ==
  ASSUME NEW l \in Loads, NEW k
  PROVE  /\ k \in DOMAIN RowPlaces(l) <=> \E r \in RowsWithKey(l) : KeyAt(l, r) = k
         /\ k \in DOMAIN RowPlaces(l) =>
              /\ RowPlaces(l)[k] \in RowsWithKey(l) /\ KeyAt(l, RowPlaces(l)[k]) = k
              /\ \A r \in RowsWithKey(l) : KeyAt(l, r) = k => RowPlaces(l)[k] <= r
<1> DEFINE S == {r \in RowsWithKey(l) : KeyAt(l, r) = k}
<1>1. /\ DOMAIN RowPlaces(l) = {KeyAt(l, r) : r \in RowsWithKey(l)}
      /\ k \in DOMAIN RowPlaces(l) => RowPlaces(l)[k] = Min(S)
  BY DEF RowPlaces
<1>2. RowsWithKey(l) \subseteq Nat
  <2>1. RowsRead(l.file, l.layout) \in Seq(Seq(Texts))
    BY RowsAre DEF Loads
  <2> QED
    BY <2>1 DEF RowsWithKey
<1>3. S \in SUBSET Nat /\ (k \in DOMAIN RowPlaces(l) => S # {})
  BY <1>1, <1>2
<1>4. k \in DOMAIN RowPlaces(l) => Min(S) \in S /\ \A r \in S : Min(S) <= r
  <2> HIDE DEF S
  <2> QED
    BY <1>3, MinIn
<1> QED
  BY <1>1, <1>4

\* A place in a row that has a key is one in the file's own line.
LEMMA CellOfLine ==
  ASSUME NEW l \in Loads, HasHeader(l), NEW r \in RowsWithKey(l),
         NEW p \in DOMAIN HeaderRead(l.file, l.layout),
         p \in DOMAIN RowsRead(l.file, l.layout)[r]
  PROVE  /\ <<l.layout.headerRows + r, p>>
              \in CellsOf(l, KeyAt(l, r), HeaderRead(l.file, l.layout)[p])
         /\ RowsRead(l.file, l.layout)[r][p] = l.file.lines[l.layout.headerRows + r][p]
<1> PICK h, names, kc : /\ h = HeaderRead(l.file, l.layout) /\ names = Header(l)
                        /\ kc = KeyColumn(l)
  OBVIOUS
<1> PICK row, n, line : /\ row = RowsRead(l.file, l.layout)[r]
                        /\ n = l.layout.headerRows + r /\ line = l.file.lines[n]
  OBVIOUS
<1>1. r \in DOMAIN RowsRead(l.file, l.layout) /\ GetFieldByIndex(row, kc) # NULL
  BY DEF RowsWithKey
<1>2. /\ n \in l.layout.headerRows + 1..Len(l.file.lines) /\ n \in DOMAIN l.file.lines
      /\ row = CreateDataRow(line)
  <2>1. l.file \in Files /\ l.layout \in Layouts
    BY DEF Loads
  <2> QED
    BY <1>1, <2>1, RowsAre
<1>3. \A q \in DOMAIN row : q \in Columns(line) /\ row[q] = line[q]
  <2>1. line \in Lines
    BY <1>2, LinesAre DEF Loads
  <2> QED
    BY <1>2, <2>1, RowIsPrefix
<1>4. /\ DOMAIN h = Columns(names) /\ \A q \in DOMAIN h : h[q] = names[q]
      /\ kc \in DOMAIN h /\ h[kc] = l.layout.keyField
  BY HeaderIs
<1>5. kc \in DOMAIN row /\ KeyAt(l, r) = KeyOf[line[kc]]
  <2>1. kc \in DOMAIN row
    BY <1>1 DEF GetFieldByIndex
  <2> QED
    BY <1>3, <2>1 DEF KeyAt
<1>6. <<n, p>> \in CellsOf(l, KeyAt(l, r), h[p])
  <2>1. /\ p \in Columns(names) /\ names[p] = h[p] /\ p \in Columns(line)
        /\ kc \in Columns(names) \cap Columns(line) /\ names[kc] = l.layout.keyField
    BY <1>3, <1>4, <1>5
  <2>2. <<n, p>>[1] = n /\ <<n, p>>[2] = p
        /\ <<n, p>> \in (l.layout.headerRows + 1..Len(l.file.lines)) \X Columns(names)
    BY <1>2, <2>1
  <2> QED
    BY <1>5, <2>1, <2>2 DEF CellsOf
<1> QED
  BY <1>3, <1>6

\* In a proper file every cell is in a row that is found by its key, as long as any other.
LEMMA CellOfProper ==
  ASSUME NEW l \in Loads, HasHeader(l), IsProperFile(l), NEW k, NEW f, NEW c \in CellsOf(l, k, f),
         NEW r, r = c[1] - l.layout.headerRows
  PROVE  /\ r \in RowsWithKey(l) /\ KeyAt(l, r) = k /\ c[1] = l.layout.headerRows + r
         /\ c[1] \in Int /\ c[2] \in DOMAIN HeaderRead(l.file, l.layout)
         /\ HeaderRead(l.file, l.layout)[c[2]] = f
<1> PICK h, names, kc, line, n, row : 
       /\ h = HeaderRead(l.file, l.layout) /\ names = Header(l) /\ kc = KeyColumn(l)
       /\ line = l.file.lines[c[1]] /\ n = c[1] /\ row = RowsRead(l.file, l.layout)[r]
  OBVIOUS
<1>1. /\ n \in l.layout.headerRows + 1..Len(l.file.lines) /\ c[2] \in Columns(names)
      /\ names[c[2]] = f
      /\ \E p \in Columns(names) \cap Columns(line) :
           names[p] = l.layout.keyField /\ KeyOf[line[p]] = k
  BY DEF CellsOf
<1>2. /\ DOMAIN h = Columns(names) /\ \A p \in DOMAIN h : h[p] = names[p]
      /\ kc \in DOMAIN h /\ h[kc] = l.layout.keyField /\ Len(names) \in Nat
  BY HeaderIs
<1>3. \A p, q \in Columns(names) : names[p] = names[q] => p = q
  BY DEF IsProperFile
<1>4. kc \in Columns(line) /\ KeyOf[line[kc]] = k
  <2> PICK p \in Columns(names) \cap Columns(line) :
         names[p] = l.layout.keyField /\ KeyOf[line[p]] = k
    BY <1>1
  <2>1. p = kc
    BY <1>2, <1>3
  <2> QED
    BY <2>1
<1>5. l.layout.headerRows \in Nat /\ n \in Int /\ n = l.layout.headerRows + r
  <2>1. l.layout.headerRows \in Nat /\ Len(l.file.lines) \in Nat
    BY RowsAre, LinesAre DEF Loads
  <2> QED
    BY <1>1, <2>1
<1>6. /\ r \in DOMAIN RowsRead(l.file, l.layout) /\ n \in DOMAIN l.file.lines
      /\ row = CreateDataRow(line)
  <2>1. l.file.ended /\ r = n - l.layout.headerRows
    BY DEF IsProperFile
  <2>2. r \in DOMAIN RowsRead(l.file, l.layout)
    BY <1>1, <2>1, RowsAre DEF Loads
  <2> QED
    BY <1>5, <2>2, RowsAre DEF Loads
<1>7. kc \in DOMAIN row /\ row[kc] = line[kc] /\ row[kc] \in Texts
  <2>1. line \in Lines /\ IsProper(line)
    BY <1>6, LinesAre DEF Loads, IsProperFile
  <2>2. /\ row \in Seq(Texts) /\ Len(row) = Len(line) - 1
        /\ \A p \in DOMAIN row : row[p] = line[p]
    BY <1>6, <2>1, RowIsPrefix
  <2>3. DOMAIN row = Columns(line)
    BY <2>2 DEF Columns
  <2> QED
    BY <1>4, <2>2, <2>3
<1>8. GetFieldByIndex(row, kc) # NULL
  BY <1>7, ConfigAssumption DEF GetFieldByIndex, NULL
<1> QED
  BY <1>1, <1>2, <1>4, <1>5, <1>6, <1>7, <1>8 DEF RowsWithKey, KeyAt

\* All rows of a proper file are as long as its header.
LEMMA RowOfProper ==
  ASSUME NEW l \in Loads, HasHeader(l), IsProperFile(l), NEW r \in DOMAIN RowsRead(l.file, l.layout)
  PROVE  DOMAIN RowsRead(l.file, l.layout)[r] = DOMAIN HeaderRead(l.file, l.layout)
<1> PICK row, line : /\ row = RowsRead(l.file, l.layout)[r]
                     /\ line = l.file.lines[l.layout.headerRows + r]
  OBVIOUS
<1>1. l.layout.headerRows + r \in DOMAIN l.file.lines /\ row = CreateDataRow(line)
  BY RowsAre DEF Loads
<1>2. line \in Lines /\ IsProper(line) /\ Len(line) = Len(Header(l))
  <2>1. line \in Lines
    BY <1>1, LinesAre DEF Loads
  <2>2. IsProper(line) /\ Len(line) = Len(Header(l))
    BY <1>1 DEF IsProperFile
  <2> QED
    BY <2>1, <2>2
<1>3. row \in Seq(Texts) /\ Len(row) = Len(Header(l)) - 1
  BY <1>1, <1>2, RowIsPrefix
<1>4. DOMAIN row = Columns(Header(l))
  BY <1>3 DEF Columns
<1> QED
  BY <1>4, HeaderIs

\* The tables of one file answer with its cells.
LEMMA TableAnswers ==
  ASSUME ValuesInv, LoadedInv, NEW l \in Loads, HasHeader(l), HoldsTable(l), NEW k, NEW f,
         NEW cells, cells = CellsOf(l, k, f)
  PROVE  /\ GetValue(k, f) \in {l.file.lines[c[1]][c[2]] : c \in cells} \cup {NULL}
         /\ IsProperFile(l) /\ cells # {} =>
              /\ \E c \in cells : \A d \in cells : c[1] <= d[1]
              /\ \A c \in cells : (\A d \in cells : c[1] <= d[1]) =>
                   GetValue(k, f) = l.file.lines[c[1]][c[2]]
<1> PICK h, rs : h = HeaderRead(l.file, l.layout) /\ rs = RowsRead(l.file, l.layout)
  OBVIOUS
<1>1. /\ Repeats(rows, rs) /\ rowPlace = RowPlaces(l) /\ fieldPlace = FieldPlaces(l)
  BY DEF HoldsTable
<1>2. CASE ~(k \in DOMAIN RowPlaces(l) /\ f \in DOMAIN FieldPlaces(l))
  <2>1. GetValue(k, f) = NULL
    BY <1>1, <1>2, LookedUp
  <2>2. ASSUME IsProperFile(l), NEW c \in cells PROVE FALSE
    <3> PICK r : r = c[1] - l.layout.headerRows
      OBVIOUS
    <3>1. r \in RowsWithKey(l) /\ KeyAt(l, r) = k /\ c[2] \in DOMAIN h /\ h[c[2]] = f
      BY <2>2, CellOfProper
    <3>2. k \in DOMAIN RowPlaces(l)
      BY <3>1, PlaceOfKey
    <3>3. f \in DOMAIN FieldPlaces(l)
      BY <3>1, PlaceOfField
    <3> QED
      BY <1>2, <3>2, <3>3
  <2> QED
    BY <2>1, <2>2
<1>3. CASE k \in DOMAIN RowPlaces(l) /\ f \in DOMAIN FieldPlaces(l)
  <2> PICK r, p, row, n, line : 
         /\ r = RowPlaces(l)[k] /\ p = FieldPlaces(l)[f] /\ row = rs[r]
         /\ n = l.layout.headerRows + r /\ line = l.file.lines[n]
    OBVIOUS
  <2>1. /\ r \in RowsWithKey(l) /\ KeyAt(l, r) = k
        /\ \A s \in RowsWithKey(l) : KeyAt(l, s) = k => r <= s
    BY <1>3, PlaceOfKey
  <2>2. p \in DOMAIN h /\ h[p] = f
    BY <1>3, PlaceOfField
  <2>3. r \in DOMAIN rs
    BY <2>1 DEF RowsWithKey
  <2>4. GetValue(k, f) = GetFieldByIndex(row, p)
    <3>1. rows[r] = row
      BY <1>1, <2>3 DEF Repeats
    <3> QED
      BY <1>1, <1>3, <3>1, LookedUp
  <2>5. p \in DOMAIN row => <<n, p>> \in cells /\ row[p] = line[p]
    <3>1. CASE p \in DOMAIN row
      <4>1. /\ r \in RowsWithKey(l) /\ p \in DOMAIN HeaderRead(l.file, l.layout)
            /\ p \in DOMAIN RowsRead(l.file, l.layout)[r]
        BY <2>1, <2>2, <3>1
      <4>2. /\ <<l.layout.headerRows + r, p>>
                 \in CellsOf(l, KeyAt(l, r), HeaderRead(l.file, l.layout)[p])
            /\ RowsRead(l.file, l.layout)[r][p] = l.file.lines[l.layout.headerRows + r][p]
        BY <4>1, CellOfLine
      <4> QED
        BY <2>1, <2>2, <4>2
    <3> QED
      BY <3>1
  <2>6. GetValue(k, f) \in {l.file.lines[c[1]][c[2]] : c \in cells} \cup {NULL}
    <3>1. CASE p \in DOMAIN row
      <4>1. GetValue(k, f) = l.file.lines[<<n, p>>[1]][<<n, p>>[2]]
        BY <2>4, <2>5, <3>1 DEF GetFieldByIndex
      <4> QED
        BY <2>5, <3>1, <4>1
    <3>2. CASE p \notin DOMAIN row
      BY <2>4, <3>2 DEF GetFieldByIndex
    <3> QED
      BY <3>1, <3>2
  <2>7. ASSUME IsProperFile(l), NEW c \in cells, \A d \in cells : c[1] <= d[1]
        PROVE  GetValue(k, f) = l.file.lines[c[1]][c[2]]
    <3>1. p \in DOMAIN row
      BY <2>2, <2>3, <2>7, RowOfProper
    <3>2. <<n, p>> \in cells /\ GetValue(k, f) = line[p]
      BY <2>4, <2>5, <3>1 DEF GetFieldByIndex
    <3> PICK s : s = c[1] - l.layout.headerRows
      OBVIOUS
    <3>3. /\ s \in RowsWithKey(l) /\ KeyAt(l, s) = k /\ c[1] = l.layout.headerRows + s
          /\ c[1] \in Int /\ c[2] \in DOMAIN h /\ h[c[2]] = f
      BY <2>7, CellOfProper
    <3>4. c[1] = n
      <4>1. r <= s /\ c[1] <= n
        BY <2>1, <2>7, <3>2, <3>3
      <4>2. r \in Nat /\ s \in Nat /\ l.layout.headerRows \in Nat
        <5>1. rs \in Seq(Seq(Texts)) /\ l.layout.headerRows \in Nat
          BY RowsAre DEF Loads
        <5> QED
          BY <2>3, <3>3, <5>1 DEF RowsWithKey
      <4> QED
        BY <3>3, <4>1, <4>2
    <3>5. c[2] = p
      <4>1. h[c[2]] = h[p] /\ DOMAIN h = Columns(Header(l)) /\ \A q \in DOMAIN h : h[q] = Header(l)[q]
        BY <2>2, <3>3, HeaderIs
      <4> QED
        BY <2>2, <2>7, <3>3, <4>1 DEF IsProperFile
    <3> QED
      BY <3>2, <3>4, <3>5
  <2>8. ASSUME IsProperFile(l), cells # {} PROVE \E c \in cells : \A d \in cells : c[1] <= d[1]
    <3>1. p \in DOMAIN row
      BY <2>2, <2>3, <2>8, RowOfProper
    <3>2. ASSUME NEW d \in cells PROVE n <= d[1]
      <4> PICK s : s = d[1] - l.layout.headerRows
        OBVIOUS
      <4>1. s \in RowsWithKey(l) /\ KeyAt(l, s) = k /\ d[1] = l.layout.headerRows + s
        BY <2>8, CellOfProper
      <4>2. r <= s
        BY <2>1, <4>1
      <4>3. r \in Nat /\ s \in Nat /\ l.layout.headerRows \in Nat
        <5>1. rs \in Seq(Seq(Texts)) /\ l.layout.headerRows \in Nat
          BY RowsAre DEF Loads
        <5> QED
          BY <2>3, <4>1, <5>1 DEF RowsWithKey
      <4> QED
        BY <4>1, <4>2, <4>3
    <3>3. <<n, p>> \in cells /\ <<n, p>>[1] = n
      BY <2>5, <3>1
    <3> QED
      BY <3>2, <3>3
  <2> QED
    BY <2>6, <2>7, <2>8
<1> QED
  BY <1>2, <1>3

\* The inductive invariant says what the property asks for.
LEMMA InvLookups == ValuesInv /\ LoadedInv => LookupIsRight
<1> SUFFICES ASSUME ValuesInv, LoadedInv PROVE LookupIsRight
  OBVIOUS
<1>1. ASSUME loaded = <<>>, NEW k, NEW f PROVE GetValue(k, f) = NULL
  <2>1. k \notin DOMAIN rowPlace
    BY <1>1 DEF LoadedInv, EmptyMap
  <2> QED
    BY <2>1, LookedUp
<1> DEFINE l == loaded[1]
           cells(k, f) == CellsOf(l, k, f)
           text(c) == l.file.lines[c[1]][c[2]]
<1>2. ASSUME OneFile(loaded), NEW k, NEW f
      PROVE  /\ GetValue(k, f) \in {text(c) : c \in cells(k, f)} \cup {NULL}
             /\ IsProperFile(l) /\ cells(k, f) # {} =>
                  GetValue(k, f) = text(CHOOSE c \in cells(k, f) :
                                          \A d \in cells(k, f) : c[1] <= d[1])
  <2> PICK m, S : m = l /\ S = cells(k, f)
    OBVIOUS
  <2>1. HasHeader(m) /\ HoldsTable(m) /\ loaded # <<>> /\ loaded \in Seq(Loads)
    BY <1>2 DEF LoadedInv, OneFile
  <2>2. m \in Loads
    <3>1. 1 \in DOMAIN loaded
      BY <2>1
    <3> QED
      BY <2>1, <3>1
  <2>3. /\ GetValue(k, f) \in {m.file.lines[c[1]][c[2]] : c \in S} \cup {NULL}
        /\ IsProperFile(m) /\ S # {} =>
             /\ \E c \in S : \A d \in S : c[1] <= d[1]
             /\ \A c \in S : (\A d \in S : c[1] <= d[1]) =>
                  GetValue(k, f) = m.file.lines[c[1]][c[2]]
    <3>1. S = CellsOf(m, k, f)
      OBVIOUS
    <3> QED
      BY <2>1, <2>2, <3>1, TableAnswers
  <2> PICK e : e = CHOOSE c \in S : \A d \in S : c[1] <= d[1]
    OBVIOUS
  <2>4. IsProperFile(m) /\ S # {} => GetValue(k, f) = m.file.lines[e[1]][e[2]]
    <3>1. (\E c \in S : \A d \in S : c[1] <= d[1]) => e \in S /\ \A d \in S : e[1] <= d[1]
      OBVIOUS
    <3> QED
      BY <2>3, <3>1
  <2> QED
    BY <2>3, <2>4
<1> HIDE DEF cells, text
<1>3. OneFile(loaded) => \A k, f :
        /\ GetValue(k, f) \in {text(c) : c \in cells(k, f)} \cup {NULL}
        /\ IsProperFile(l) /\ cells(k, f) # {} =>
             GetValue(k, f) = text(CHOOSE c \in cells(k, f) :
                                     \A d \in cells(k, f) : c[1] <= d[1])
  BY <1>2
<1> QED
  BY <1>1, <1>3, Zenon DEF LookupIsRight, cells, text

-----------------------------------------------------------------------------
(* The parts by themselves, and the program *)

\* For calls in any order, an Init() or Connect() over a connection among them: the
\* application believes in a connection only while Tick works on it, Tick works on none that
\* was not told of, and only an Init() of its own leaves one without a word
\* (hs_client_connector.h:176-287, hs_client_connector.cpp:67-112).
THEOREM ClientTold == ClientSpec => []ToldTruth
<1> QED
  BY ClientStart, ToldStep, PTL DEF ClientSpec

\* For any signatures, depth of calls and values left behind, a call_va that returns
\* leaves the stack as it was (MyLuaWrapper.cpp:87-166).
THEOREM LuaBalanced == LuaSpec => CallsAreBalanced
<1>1. LuaInit => FramesInv
  BY EmptySeq DEF LuaInit, FramesInv
<1>2. FramesInv /\ [LuaNext]_luaVars => FramesInv' /\ [Restores]_luaVars
  BY LuaStepInv
<1> QED
  BY <1>1, <1>2, PTL DEF LuaSpec, CallsAreBalanced, Restores

\* For any files and layouts, loads and look-ups, a value asked for in the same way gives
\* the same answer until the next Clear() (HSConfigReader.h:240-263, 352-376).
THEOREM ConfigAnswers == ConfigSpec => []AnswersStay
<1> QED
  BY ConfigStart, ConfigStep, InvAnswers, PTL DEF ConfigSpec

\* For any files, layouts and order of loads, clears and look-ups, a look-up answers with a
\* cell of the file loaded that has this key and this field, and if the file is proper with
\* the first (HSConfigReader.h:393-442, 462-487).
THEOREM ConfigLookups == ConfigSpec => []LookupIsRight
<1> QED
  BY ConfigStart, ConfigStep, LoadedStart, LoadedStep, InvLookups, PTL DEF ConfigSpec

\* A step of the program is one of each part, or leaves it alone: scripts reach the
\* configuration through the functions of interface2lua.cpp alone, each of which makes
\* one call.
LEMMA PartsOfProgram ==
  [Connection \/ Scripts]_<<configVars, luaVars, clientVars>>
    => [ClientNext]_clientVars /\ [LuaNext]_luaVars /\ [ConfigNext]_configVars
<1> SUFFICES ASSUME [Connection \/ Scripts]_<<configVars, luaVars, clientVars>>
             PROVE  [ClientNext]_clientVars /\ [LuaNext]_luaVars /\ [ConfigNext]_configVars
  OBVIOUS
<1>1. CASE Connection \/ UNCHANGED <<configVars, luaVars, clientVars>>
  BY <1>1 DEF Connection
<1>2. CASE Scripts
  <2>1. UNCHANGED clientVars /\ ~undefined
    BY <1>2 DEF Scripts, ScriptsNext
  <2>2. CASE HostAlone \/ HostOpens \/ LuaStep
    <3>1. OpenLua => LuaNext
      BY <1>2 DEF LuaNext, Scripts, ScriptsNext
    <3> QED
      BY <2>1, <2>2, <3>1 DEF HostAlone, HostOpens, LuaStep
  <2>3. CASE HostBeside
    BY <2>1, <2>3, ProgramAssumption DEF HostBeside, ConfigNext, HostLoads
  <2>4. CASE ScriptLooksUp \/ ScriptConverts
    <3>1. UNCHANGED luaVars
      BY <2>4 DEF ScriptLooksUp, ScriptConverts
    <3>2. HostReads
      BY <2>4 DEF ScriptLooksUp, ScriptConverts, HostReads
    <3> QED
      BY <2>1, <3>1, <3>2 DEF ConfigNext
  <2> QED
    BY <1>2, <2>2, <2>3, <2>4 DEF Scripts, ScriptsNext
<1> QED
  BY <1>1, <1>2

\* So what the parts guarantee the program does, whatever its scripts do between the host's
\* loads and clears: the connection the application was told of is the one Tick works on
\* (hs_client_connector.h:210-287).
THEOREM ProgramTold == ProgramSpec => []ToldTruth
<1> QED
  BY PartsOfProgram, ClientStart, ToldStep, PTL DEF ProgramSpec, ProgramInit

\* A call_va that returns leaves the stack as it was, when the scripts it runs use the
\* configuration and call back into the host, too (MyLuaWrapper.cpp:87-166).
THEOREM ProgramBalanced == ProgramSpec => CallsAreBalanced
<1>1. LuaInit => FramesInv
  BY EmptySeq DEF LuaInit, FramesInv
<1>2. FramesInv /\ [LuaNext]_luaVars => FramesInv' /\ [Restores]_luaVars
  BY LuaStepInv
<1> QED
  BY <1>1, <1>2, PartsOfProgram, PTL DEF ProgramSpec, ProgramInit, CallsAreBalanced, Restores

\* A value answers in the same way host and scripts, in whatever order they ask
\* (HSConfigReader.h:240-263, interface2lua.cpp).
THEOREM ProgramAnswers == ProgramSpec => []AnswersStay
<1> QED
  BY PartsOfProgram, ConfigStart, ConfigStep, InvAnswers, PTL DEF ProgramSpec, ProgramInit

\* Host and scripts are answered from the file that is loaded, whatever the other has asked
\* for or loaded before (HSConfigReader.h:393-442, 462-487, interface2lua.cpp).
THEOREM ProgramLookups == ProgramSpec => []LookupIsRight
<1> QED
  BY PartsOfProgram, ConfigStart, ConfigStep, LoadedStart, LoadedStep, InvLookups, PTL
     DEF ProgramSpec, ProgramInit
=============================================================================
