------------------------- MODULE SimpleProtoProofs -------------------------
(***************************************************************************)
(* SimpleProto cuts the stream right for every size of header and buffer,  *)
(* every set of lengths and every way the stream is cut into blocks.       *)
(***************************************************************************)
EXTENDS SimpleProto, TLAPS

\* What each call of handle_simple_message starts from: never are bytes both
\* kept and to be skipped, and what is kept is less than a message.
Framed ==
  /\ TypeOK /\ StandsAtHeader /\ NothingHeldBack
  /\ pc # "parsing" => remaining = 0
  /\ skipping > 0 => offset = 0

\* A number of bytes to skip is a size_t.
LEMMA DisposedIsSize ==
  ASSUME NEW length \in Nat, remaining \in Int PROVE Disposed(length) \in 0 .. SizeMod - 1
  BY SizesAssumption DEF Disposed

\* Nothing fits everywhere, and is less than any message.
LEMMA NothingFits ==
  \A z : z = 0 =>
    /\ z \in 0 .. BufferSize - 1 /\ z \in 0 .. BufferSize /\ z \in 0 .. SizeMod - 1
    /\ z < BufferSize /\ \A length \in Lengths : z < HeaderLen + length
  BY SizesAssumption

\* A new handler stands at the first header.
LEMMA InitFramed == Init => Framed
<1> SUFFICES ASSUME Init PROVE Framed
  OBVIOUS
<1> USE SizesAssumption DEF Init
<1>1. TypeOK
  <2>1. oversized \in BOOLEAN
    OBVIOUS
  <2>2. /\ pc = "reading" /\ offset \in 0 .. BufferSize - 1 /\ skipping \in 0 .. SizeMod - 1
        /\ transferred \in 0 .. BufferSize /\ remaining \in 0 .. BufferSize
        /\ len \in Lengths /\ arrived \in Int
    OBVIOUS
  <2> QED BY <2>1, <2>2 DEF TypeOK
<1>2. Drift = 0
  BY DEF Drift
<1>3. NothingHeldBack
  BY NothingFits DEF NothingHeldBack
<1> QED BY <1>1, <1>2, <1>3 DEF Framed, StandsAtHeader

\* Every call of handle_simple_message, and every new connection, keeps it so.
LEMMA NextFramed == Framed /\ [Next]_vars => Framed'
<1> SUFFICES ASSUME Framed, [Next]_vars PROVE Framed'
    OBVIOUS
<1> USE SizesAssumption DEF Framed, TypeOK, StandsAtHeader, NothingHeldBack
<1>1. CASE used_up
  BY <1>1 DEF used_up, Return, Drift
<1>2. CASE header_incomplete
  BY <1>2 DEF header_incomplete, Return, Drift
<1>3. ASSUME NEW length \in Lengths, packet_too_big(length) PROVE Framed'
  <2>1. length \in Nat /\ Disposed(length) \in 0 .. SizeMod - 1
    BY DisposedIsSize
  <2>2. offset' = 0 /\ skipping' = Disposed(length) /\ pc' = "reading" /\ remaining' = 0
        /\ transferred' = 0 /\ len' \in Lengths /\ arrived' \in Int
    BY <1>3, <2>1 DEF packet_too_big, Return
  <2>3. oversized' \in BOOLEAN /\ StandsAtHeader'
    BY <1>3 DEF packet_too_big
  <2>4. offset' < BufferSize /\ offset' < HeaderLen + len'
    BY <2>2, NothingFits
  <2>5. NothingHeldBack'
    BY <2>2, <2>4
  <2>6. TypeOK'
    BY <2>1, <2>2, <2>3, NothingFits
  <2> QED BY <2>2, <2>3, <2>5, <2>6
<1>4. ASSUME NEW length \in Lengths, packet_incomplete(length) PROVE Framed'
  BY <1>4 DEF packet_incomplete, HeaderSays, Return, Drift
<1>5. ASSUME NEW length \in Lengths, packet_handled(length) PROVE Framed'
  BY <1>5 DEF packet_handled, Drift
<1>6. CASE connection_failed
  BY <1>6 DEF connection_failed, Drift
<1>7. ASSUME NEW n \in 1 .. BufferSize, on_receive(n) PROVE Framed'
  <2>1. CASE skipping > n
    BY <1>7, <2>1 DEF on_receive, Return, Drift
  <2>2. CASE ~(skipping > n)
    BY <1>7, <2>2 DEF on_receive, Drift
  <2> QED BY <2>1, <2>2
<1>8. CASE start
  <2>1. /\ pc' = "reading" /\ offset' = 0 /\ skipping' = 0 /\ remaining' = 0
        /\ transferred' = transferred /\ len' \in Lengths /\ arrived' = 0
    BY <1>8 DEF start
  <2>2. oversized' \in BOOLEAN
    BY <1>8 DEF start
  <2>3. offset' < BufferSize /\ offset' < HeaderLen + len'
    BY <2>1, NothingFits
  <2>4. Drift' = 0
    BY <2>1 DEF Drift
  <2>5. TypeOK'
    BY <2>1, <2>2, NothingFits
  <2> QED BY <2>1, <2>3, <2>4, <2>5
<1>9. CASE UNCHANGED vars
  BY <1>9 DEF vars, Drift
<1> QED
  BY <1>1, <1>2, <1>3, <1>4, <1>5, <1>6, <1>7, <1>8, <1>9 DEF Next, Reading, handle_simple_message

\* The buffer's bounds hold at every step of handle_simple_message.
THEOREM TypeCorrect == Spec => []TypeOK
<1>1. Framed => TypeOK
  BY DEF Framed
<1> QED BY <1>1, InitFramed, NextFramed, PTL DEF Spec

\* As long as every message fits, handle_simple_message looks for a header
\* only where a message begins.
THEOREM HeadersAreFound == Spec => []StandsAtHeader
<1>1. Framed => StandsAtHeader
  BY DEF Framed
<1> QED BY <1>1, InitFramed, NextFramed, PTL DEF Spec

\* on_receive reads on only when no complete message is left in the buffer,
\* and it has room to do so.
THEOREM NoMessageIsHeldBack == Spec => []NothingHeldBack
<1>1. Framed => NothingHeldBack
  BY DEF Framed
<1> QED BY <1>1, InitFramed, NextFramed, PTL DEF Spec

\* The bounds alone, step by step, at either end of a connection.
LEMMA ReadingTyped ==
  ASSUME TypeOK, Reading PROVE TypeOK'
<1> USE SizesAssumption DEF TypeOK
<1>1. CASE used_up
  BY <1>1 DEF used_up, Return
<1>2. CASE header_incomplete
  BY <1>2 DEF header_incomplete, Return
<1>3. ASSUME NEW length \in Lengths, packet_too_big(length) PROVE TypeOK'
  <2>1. length \in Nat /\ Disposed(length) \in 0 .. SizeMod - 1
    BY DisposedIsSize
  <2>2. offset' = 0 /\ skipping' = Disposed(length) /\ pc' = "reading" /\ remaining' = 0
        /\ transferred' = 0 /\ len' \in Lengths /\ arrived' \in Int
    BY <1>3, <2>1 DEF packet_too_big, Return, Drift
  <2>3. oversized' \in BOOLEAN
    BY <1>3 DEF packet_too_big
  <2> QED BY <2>1, <2>2, <2>3, NothingFits
<1>4. ASSUME NEW length \in Lengths, packet_incomplete(length) PROVE TypeOK'
  BY <1>4 DEF packet_incomplete, Return
<1>5. ASSUME NEW length \in Lengths, packet_handled(length) PROVE TypeOK'
  BY <1>5 DEF packet_handled
<1>6. CASE connection_failed
  BY <1>6 DEF connection_failed
<1>7. ASSUME NEW n \in 1 .. BufferSize, on_receive(n) PROVE TypeOK'
  <2>1. CASE skipping > n
    BY <1>7, <2>1 DEF on_receive, Return
  <2>2. CASE ~(skipping > n)
    BY <1>7, <2>2 DEF on_receive
  <2> QED BY <2>1, <2>2
<1> QED BY <1>1, <1>2, <1>3, <1>4, <1>5, <1>6, <1>7 DEF Reading, handle_simple_message

\* They hold in the worker too, whose reset keeps offset and bytes to skip
\* from one connection to the next: it may lose its place in the stream, but
\* never the bounds of its buffer.
THEOREM WorkerTypeCorrect == WorkerSpec => []TypeOK
<1>1. Init => TypeOK
  BY InitFramed DEF Framed
<1>2. TypeOK /\ [WorkerNext]_vars => TypeOK'
  <2> SUFFICES ASSUME TypeOK, [WorkerNext]_vars PROVE TypeOK'
    OBVIOUS
  <2>1. CASE reset
    <3>1. oversized' \in BOOLEAN
      BY <2>1 DEF reset
    <3>2. UNCHANGED <<offset, skipping, transferred, remaining>> /\ pc' = "reading" /\ len' \in Lengths /\ arrived' \in Int
      BY <2>1 DEF reset
    <3>. QED BY <3>1, <3>2 DEF TypeOK
  <2>2. CASE UNCHANGED vars
    BY <2>2 DEF vars, TypeOK
  <2>. QED BY <2>1, <2>2, ReadingTyped DEF WorkerNext
<1>. QED BY <1>1, <1>2, PTL DEF WorkerSpec
=============================================================================
