--------------------------- MODULE NarFetchProofs ---------------------------
(***************************************************************************)
(* The substituter reports a nar as served only when it was, and waits for  *)
(* its processes, whatever the differ sends and whichever of the processes, *)
(* the filters and the client fails.                                        *)
(***************************************************************************)
EXTENDS NarFetch, TLAPS

\* Nothing runs before Start, and what runs then depends on the filter.
Started ==
    /\ pc \in {"post", "reply"} =>
        dump = "off" /\ dec = "off" /\ expand = "off" /\ col = "off" /\ out = "none"
    /\ pc \in {"copy", "decode", "filter", "dump", "trailer", "unwind"} => dump # "off"
    /\ pc \in {"copy", "decode", "filter", "dump", "trailer"} =>
        (job.filter <=> col # "off")
    /\ ~job.filter => expand = "off"

\* What the decoder made of a delta and a base that are whole is the nar.
Decoded ==
    /\ dec = "ok" /\ reply[2] = "body" /\ dump # "bad" /\ expand # "bad" => out = "whole"
    /\ dec = "off" /\ pc # "copy" => pc \in {"post", "reply", "unwind", "done"}
    /\ pc \in {"filter", "dump", "trailer"} => dec = "ok" /\ expand \in {"off", "ok"}
    /\ pc \in {"unwind", "done"} => dec # "run"
    /\ pc = "copy" => dec = "off"

\* Up to the trailer every stage has been waited for.
Awaited ==
    /\ pc \in {"dump", "trailer"} => col # "run"
    /\ pc = "trailer" => dump = "ok" /\ col # "bad"
    /\ pc \notin {"unwind", "done"} => ret = 0
    /\ pc \in {"unwind", "done"} /\ ret = 0 =>
        Served /\ dump = "ok" /\ reply = <<"header", "body", "ok">>

Inv == Started /\ Decoded /\ Awaited

IInv == TypeOK /\ Inv /\ Reaped

LEMMA InitIInv == Init => IInv
  BY NarFetchAssumption DEF Init, IInv, Inv, TypeOK, Started, Decoded, Awaited, Reaped,
     Replies, PC

LEMMA PostStep == IInv /\ Post => IInv'
<1> SUFFICES ASSUME IInv, Post PROVE IInv'
  OBVIOUS
<1> USE DEF IInv, Inv, TypeOK, Post, Goto, Fail
<1>1. TypeOK'
  BY DEF Replies, PC
<1>2. Started'
  BY DEF Started
<1>3. Decoded'
  BY DEF Decoded, Started
<1>4. Awaited'
  BY DEF Awaited, Served, Started, Decoded
<1>5. Reaped'
  BY DEF Reaped, Decoded, Started
<1> QED
  BY <1>1, <1>2, <1>3, <1>4, <1>5

LEMMA StartStep == IInv /\ Start => IInv'
<1> SUFFICES ASSUME IInv, Start PROVE IInv'
  OBVIOUS
<1> USE DEF IInv, Inv, TypeOK, Start, Goto, Fail
<1>1. TypeOK'
  BY DEF Replies, PC
<1>2. Started'
  BY DEF Started
<1>3. Decoded'
  BY DEF Decoded, Started
<1>4. Awaited'
  BY DEF Awaited, Served, Started, Decoded
<1>5. Reaped'
  BY DEF Reaped, Decoded, Started
<1> QED
  BY <1>1, <1>2, <1>3, <1>4, <1>5

LEMMA StartFailsStep == IInv /\ StartFails => IInv'
<1> SUFFICES ASSUME IInv, StartFails PROVE IInv'
  OBVIOUS
<1> USE DEF IInv, Inv, TypeOK, StartFails, Goto, Fail
<1>1. TypeOK'
  BY DEF Replies, PC
<1>2. Started'
  BY DEF Started
<1>3. Decoded'
  BY DEF Decoded, Started
<1>4. Awaited'
  BY DEF Awaited, Served, Started, Decoded
<1>5. Reaped'
  BY DEF Reaped, Decoded, Started
<1> QED
  BY <1>1, <1>2, <1>3, <1>4, <1>5

LEMMA CopyStep == IInv /\ Copy => IInv'
<1> SUFFICES ASSUME IInv, Copy PROVE IInv'
  OBVIOUS
<1> USE DEF IInv, Inv, TypeOK, Copy, Goto, Fail
<1>1. TypeOK'
  BY DEF Replies, PC
<1>2. Started'
  BY DEF Started
<1>3. Decoded'
  BY DEF Decoded, Started
<1>4. Awaited'
  BY DEF Awaited, Served, Started, Decoded
<1>5. Reaped'
  BY DEF Reaped, Decoded, Started
<1> QED
  BY <1>1, <1>2, <1>3, <1>4, <1>5

LEMMA DecodeStep == IInv /\ Decode => IInv'
<1> SUFFICES ASSUME IInv, Decode PROVE IInv'
  OBVIOUS
<1> USE DEF IInv, Inv, TypeOK, Decode, Goto, Fail
<1>1. TypeOK'
  BY DEF Replies, PC
<1>2. Started'
  BY DEF Started
<1>3. Decoded'
  BY DEF Decoded, Started
<1>4. Awaited'
  BY DEF Awaited, Served, Started, Decoded
<1>5. Reaped'
  BY DEF Reaped, Decoded, Started
<1> QED
  BY <1>1, <1>2, <1>3, <1>4, <1>5

LEMMA FilterStep == IInv /\ Filter => IInv'
<1> SUFFICES ASSUME IInv, Filter PROVE IInv'
  OBVIOUS
<1> USE DEF IInv, Inv, TypeOK, Filter, Goto, Fail
<1>1. TypeOK'
  BY DEF Replies, PC
<1>2. Started'
  BY DEF Started
<1>3. Decoded'
  BY DEF Decoded, Started
<1>4. Awaited'
  BY DEF Awaited, Served, Started, Decoded
<1>5. Reaped'
  BY DEF Reaped, Decoded, Started
<1> QED
  BY <1>1, <1>2, <1>3, <1>4, <1>5

LEMMA WaitDumpStep == IInv /\ WaitDump => IInv'
<1> SUFFICES ASSUME IInv, WaitDump PROVE IInv'
  OBVIOUS
<1> USE DEF IInv, Inv, TypeOK, WaitDump, Goto, Fail
<1>1. TypeOK'
  BY DEF Replies, PC
<1>2. Started'
  BY DEF Started
<1>3. Decoded'
  BY DEF Decoded, Started
<1>4. Awaited'
  BY DEF Awaited, Served, Started, Decoded
<1>5. Reaped'
  BY DEF Reaped, Decoded, Started
<1> QED
  BY <1>1, <1>2, <1>3, <1>4, <1>5

LEMMA TrailerStep == IInv /\ Trailer => IInv'
<1> SUFFICES ASSUME IInv, Trailer PROVE IInv'
  OBVIOUS
<1> USE DEF IInv, Inv, TypeOK, Trailer, Goto, Fail
<1>1. TypeOK'
  BY DEF Replies, PC
<1>2. Started'
  BY DEF Started
<1>3. Decoded'
  BY DEF Decoded, Started
<1>4. Awaited'
  BY DEF Awaited, Served, Started, Decoded
<1>5. Reaped'
  BY DEF Reaped, Decoded, Started
<1> QED
  BY <1>1, <1>2, <1>3, <1>4, <1>5

LEMMA UnwindStep == IInv /\ Unwind => IInv'
<1> SUFFICES ASSUME IInv, Unwind PROVE IInv'
  OBVIOUS
<1> USE DEF IInv, Inv, TypeOK, Unwind, Goto, Fail
<1>1. TypeOK'
  BY DEF Replies, PC
<1>2. Started'
  BY DEF Started
<1>3. Decoded'
  BY DEF Decoded, Started
<1>4. Awaited'
  BY DEF Awaited, Served, Started, Decoded
<1>5. Reaped'
  BY DEF Reaped, Decoded, Started
<1> QED
  BY <1>1, <1>2, <1>3, <1>4, <1>5

LEMMA DumpExitStep == IInv /\ DumpExit => IInv'
<1> SUFFICES ASSUME IInv, DumpExit PROVE IInv'
  OBVIOUS
<1> USE DEF IInv, Inv, TypeOK, DumpExit, Goto, Fail
<1>1. TypeOK'
  BY DEF Replies, PC
<1>2. Started'
  BY DEF Started
<1>3. Decoded'
  BY DEF Decoded, Started
<1>4. Awaited'
  BY DEF Awaited, Served, Started, Decoded
<1>5. Reaped'
  BY DEF Reaped, Decoded, Started
<1> QED
  BY <1>1, <1>2, <1>3, <1>4, <1>5

LEMMA KillStep == IInv /\ Kill => IInv'
<1> SUFFICES ASSUME IInv, Kill PROVE IInv'
  OBVIOUS
<1> USE DEF IInv, Inv, TypeOK, Kill, Goto, Fail
<1>1. TypeOK'
  BY DEF Replies, PC
<1>2. Started'
  BY DEF Started
<1>3. Decoded'
  BY DEF Decoded, Started
<1>4. Awaited'
  BY DEF Awaited, Served, Started, Decoded
<1>5. Reaped'
  BY DEF Reaped, Decoded, Started
<1> QED
  BY <1>1, <1>2, <1>3, <1>4, <1>5

LEMMA ExpandEndStep == IInv /\ ExpandEnd => IInv'
<1> SUFFICES ASSUME IInv, ExpandEnd PROVE IInv'
  OBVIOUS
<1> USE DEF IInv, Inv, TypeOK, ExpandEnd, Goto, Fail
<1>1. TypeOK'
  BY DEF Replies, PC
<1>2. Started'
  BY DEF Started
<1>3. Decoded'
  BY DEF Decoded, Started
<1>4. Awaited'
  BY DEF Awaited, Served, Started, Decoded
<1>5. Reaped'
  BY DEF Reaped, Decoded, Started
<1> QED
  BY <1>1, <1>2, <1>3, <1>4, <1>5

LEMMA DecoderExitStep == IInv /\ DecoderExit => IInv'
<1> SUFFICES ASSUME IInv, DecoderExit PROVE IInv'
  OBVIOUS
<1> USE DEF IInv, Inv, TypeOK, DecoderExit, Goto, Fail
<1>1. TypeOK'
  BY DEF Replies, PC
<1>2. Started'
  BY DEF Started
<1>3. Decoded'
  BY DEF Decoded, Started
<1>4. Awaited'
  BY DEF Awaited, Served, Started, Decoded
<1>5. Reaped'
  BY DEF Reaped, Decoded, Started
<1> QED
  BY <1>1, <1>2, <1>3, <1>4, <1>5

LEMMA CollapseEndStep == IInv /\ CollapseEnd => IInv'
<1> SUFFICES ASSUME IInv, CollapseEnd PROVE IInv'
  OBVIOUS
<1> USE DEF IInv, Inv, TypeOK, CollapseEnd, Goto, Fail
<1>1. TypeOK'
  BY DEF Replies, PC
<1>2. Started'
  BY DEF Started
<1>3. Decoded'
  BY DEF Decoded, Started
<1>4. Awaited'
  BY DEF Awaited, Served, Started, Decoded
<1>5. Reaped'
  BY DEF Reaped, Decoded, Started
<1> QED
  BY <1>1, <1>2, <1>3, <1>4, <1>5

LEMMA DisconnectStep == IInv /\ Disconnect => IInv'
<1> SUFFICES ASSUME IInv, Disconnect PROVE IInv'
  OBVIOUS
<1> USE DEF IInv, Inv, TypeOK, Disconnect, Goto, Fail
<1>1. TypeOK'
  BY DEF Replies, PC
<1>2. Started'
  BY DEF Started
<1>3. Decoded'
  BY DEF Decoded, Started
<1>4. Awaited'
  BY DEF Awaited, Served, Started, Decoded
<1>5. Reaped'
  BY DEF Reaped, Decoded, Started
<1> QED
  BY <1>1, <1>2, <1>3, <1>4, <1>5

LEMMA StutterStep == IInv /\ UNCHANGED vars => IInv'
  BY DEF IInv, Inv, vars, TypeOK, Started, Decoded, Awaited, Reaped, Served

LEMMA SpecIInv == Spec => []IInv
<1>1. IInv /\ [Next]_vars => IInv'
  BY PostStep, StartStep, StartFailsStep, CopyStep, DecodeStep, FilterStep, WaitDumpStep,
     TrailerStep, UnwindStep, DumpExitStep, KillStep, ExpandEndStep, DecoderExitStep,
     CollapseEndStep, DisconnectStep, StutterStep, Zenon DEF Next, Handler
<1> QED
  BY InitIInv, <1>1, PTL DEF Spec

\* Type correctness of one nar's fetch, for every set of kinds of nars.
THEOREM SpecTypeOK == Spec => []TypeOK
  BY SpecIInv, PTL DEF IInv

\* subst.go:249-291: a nar is reported as served only when the client has it
\* whole, its base was dumped to the end, and the differ vouched for the delta.
THEOREM SpecOkMeansServed == Spec => []OkMeansServed
<1>1. IInv => OkMeansServed
  BY DEF IInv, Inv, Awaited, OkMeansServed
<1> QED
  BY <1>1, SpecIInv, PTL

\* subst.go:227, algo.go:140,239: no process outlives the handler that started
\* it, whatever failed.
THEOREM SpecReaped == Spec => []Reaped
  BY SpecIInv, PTL DEF IInv
=============================================================================
