--------------------------- MODULE LiveSyncProofs ---------------------------
(***************************************************************************)
(* Proofs about LiveSync for every set of journals, every limit of the     *)
(* replay buffer and the write pump, every window and every number of      *)
(* disturbances.                                                           *)
(*                                                                         *)
(* 1. The stream.  StreamInv adds to StreamIsGapless what is still to be   *)
(*    written: the buffer continues the replay at its high watermark, the  *)
(*    pump continues the frames, and what neither holds is not public.     *)
(*    The order is not that of the sequence numbers: the start of a        *)
(*    continuation comes after its context.                                *)
(* 2. The cursor.  CursorInv follows an event from the frame to the        *)
(*    cursor: whatever is scheduled, on its way or durable has, with all   *)
(*    that is public before it, been handled.                              *)
(***************************************************************************)
EXTENDS LiveSync, TLAPS

ConnFields == {"phase", "newest", "base", "high", "delivered", "buffer", "pump", "frames", "read"}

Hidden(s, e) == s[e] \notin PublicKinds

\* in the journal s, b comes next after a but for events that are not public
Follows(s, a, b) == \A e \in Skipped(a, b) : Hidden(s, e)

\* the event before the i-th of the queue q that continues at a
Before(a, q, i) == IF i = 1 THEN a ELSE q[i - 1]

\* q continues at a, each public event once and in order
Continues(s, a, q) == \A i \in 1..Len(q) : Follows(s, Before(a, q, i), q[i])

\* the last event of the queue q that continues at a
Newest(a, q) == Before(a, q, Len(q) + 1)

\* q continues at a and holds all that is public, when n is the last event
Holds(s, n, a, q) ==
    /\ Continues(s, a, q)
    /\ a <= n /\ \A i \in 1..Len(q) : q[i] <= n
    /\ \A e \in Newest(a, q) + 1 .. n : Hidden(s, e)

\* where the buffer continues: the replay goes to the watermark
Mark(c) == IF c.delivered < c.high THEN c.high ELSE c.delivered

ConnShape(c) ==
    /\ ConnFields \subseteq DOMAIN c
    /\ c.base \in Nat /\ c.high \in Nat /\ c.delivered \in Nat /\ c.read \in Nat
    /\ c.frames \in Seq(Nat) /\ c.buffer \in Seq(Nat) /\ c.pump \in Seq(Nat)
    /\ c.read <= Len(c.frames)

\* the connection c to the journal s that ends at n
ConnOK(s, n, c) ==
    /\ ConnShape(c)
    /\ Continues(s, c.base, c.frames)
    /\ c.phase \in {"none", "requested", "failed"}
          => c.frames = <<>> /\ c.buffer = <<>> /\ c.pump = <<>>
    /\ c.phase = "replay"
          => /\ c.delivered = Newest(c.base, c.frames) /\ c.pump = <<>>
             /\ c.high <= n /\ Holds(s, n, Mark(c), c.buffer)
    /\ c.phase = "live" => Holds(s, n, Newest(c.base, c.frames), c.pump)

JournalOK == last \in Nat /\ acked \in Nat /\ acked <= last

StreamInv == JournalOK /\ ConnOK(script, last, conn)

-----------------------------------------------------------------------------
(* 1. The stream.                                                          *)

\* The newest event of a queue.
LEMMA NewestOf ==
    ASSUME NEW a \in Nat, NEW q \in Seq(Nat)
    PROVE  /\ Newest(a, q) \in Nat
           /\ q = <<>> => Newest(a, q) = a
           /\ q # <<>> => Newest(a, q) = q[Len(q)]
  BY DEF Newest, Before

\* An event that follows is put at the end of a queue.
LEMMA Appended ==
    ASSUME NEW s, NEW a \in Nat, NEW q \in Seq(Nat), NEW e \in Nat,
           Continues(s, a, q), Follows(s, Newest(a, q), e)
    PROVE  Continues(s, a, Append(q, e)) /\ Newest(a, Append(q, e)) = e
  <1> DEFINE r == Append(q, e)
  <1>1. /\ Len(r) = Len(q) + 1 /\ r[Len(q) + 1] = e
        /\ \A i \in 1..Len(q) : r[i] = q[i]
    OBVIOUS
  <1>2. ASSUME NEW i \in 1..Len(q) PROVE Before(a, r, i) = Before(a, q, i)
    BY <1>1 DEF Before
  <1>3. Before(a, r, Len(q) + 1) = Newest(a, q)
    BY <1>1 DEF Before, Newest
  <1>4. ASSUME NEW i \in 1..Len(r) PROVE Follows(s, Before(a, r, i), r[i])
    BY <1>1, <1>2, <1>3 DEF Continues
  <1>5. Newest(a, r) = e
    BY <1>1 DEF Newest, Before
  <1> QED
    BY <1>4, <1>5 DEF Continues

\* The first event of a queue is taken from it.
LEMMA Taken ==
    ASSUME NEW s, NEW a \in Nat, NEW q \in Seq(Nat), q # <<>>, Continues(s, a, q)
    PROVE  /\ Head(q) \in Nat /\ Tail(q) \in Seq(Nat)
           /\ Follows(s, a, Head(q)) /\ Continues(s, Head(q), Tail(q))
           /\ Newest(Head(q), Tail(q)) = Newest(a, q)
  <1> DEFINE t == Tail(q)
  <1>1. /\ Len(q) \in Nat /\ Len(q) > 0 /\ Head(q) = q[1] /\ Head(q) \in Nat
        /\ t \in Seq(Nat) /\ Len(t) = Len(q) - 1
        /\ \A i \in 1..Len(t) : t[i] = q[i + 1]
    OBVIOUS
  <1>2. Follows(s, a, Head(q))
    BY <1>1 DEF Continues, Before
  <1>3. ASSUME NEW i \in 1..Len(t) PROVE Before(Head(q), t, i) = Before(a, q, i + 1)
    BY <1>1 DEF Before
  <1>4. ASSUME NEW i \in 1..Len(t) PROVE Follows(s, Before(Head(q), t, i), t[i])
    BY <1>1, <1>3 DEF Continues
  <1>5. Newest(Head(q), t) = Newest(a, q)
    BY <1>1 DEF Newest, Before
  <1> QED
    BY <1>1, <1>2, <1>4, <1>5 DEF Continues

\* The newest event a queue holds is not after the last one.
LEMMA HeldNewest ==
    ASSUME NEW s, NEW n \in Nat, NEW a \in Nat, NEW q \in Seq(Nat), Holds(s, n, a, q)
    PROVE  Newest(a, q) \in Nat /\ Newest(a, q) <= n
  <1>1. CASE q = <<>>
    BY <1>1, NewestOf DEF Holds
  <1>2. CASE q # <<>>
    <2>1. Len(q) \in 1..Len(q)
      BY <1>2
    <2> QED
      BY <1>2, <2>1, NewestOf DEF Holds
  <1> QED
    BY <1>1, <1>2

\* A queue that holds everything takes an event at the end.
LEMMA HeldAppend ==
    ASSUME NEW s, NEW n \in Nat, NEW m \in Nat, NEW a \in Nat, NEW q \in Seq(Nat),
           NEW e \in Nat, Holds(s, n, a, q), n <= m, e <= m, Follows(s, Newest(a, q), e),
           \A x \in e + 1 .. m : Hidden(s, x)
    PROVE  Holds(s, m, a, Append(q, e)) /\ Newest(a, Append(q, e)) = e
  <1>1. Continues(s, a, Append(q, e)) /\ Newest(a, Append(q, e)) = e
    BY Appended DEF Holds
  <1>2. ASSUME NEW i \in 1..Len(Append(q, e)) PROVE Append(q, e)[i] <= m
    <2>1. CASE i = Len(q) + 1
      BY <2>1
    <2>2. CASE i \in 1..Len(q)
      BY <2>2 DEF Holds
    <2> QED
      BY <2>1, <2>2
  <1> QED
    BY <1>1, <1>2 DEF Holds

\* A queue that holds everything goes on when the journal does: an event that
\* is not public is left out, the next one is taken, or a pair that is not
\* public is taken in either order or in part.
LEMMA Held ==
    ASSUME NEW s, NEW n \in Nat, NEW a \in Nat, NEW q \in Seq(Nat), Holds(s, n, a, q)
    PROVE  /\ Hidden(s, n + 1) => Holds(s, n + 1, a, q)
           /\ Holds(s, n + 1, a, Append(q, n + 1))
           /\ Hidden(s, n + 1) /\ Hidden(s, n + 2)
                 => /\ Holds(s, n + 2, a, q)
                    /\ Holds(s, n + 2, a, Append(q, n + 2))
                    /\ Holds(s, n + 2, a, Append(Append(q, n + 2), n + 1))
  <1>1. Newest(a, q) \in Nat /\ Newest(a, q) <= n
    BY HeldNewest
  <1>2. Follows(s, Newest(a, q), n + 1)
    BY <1>1 DEF Holds, Follows, Skipped
  <1>3. Holds(s, n + 1, a, Append(q, n + 1))
    BY <1>1, <1>2, HeldAppend
  <1>4. ASSUME Hidden(s, n + 1) PROVE Holds(s, n + 1, a, q)
    BY <1>1, <1>4 DEF Holds
  <1>5. ASSUME Hidden(s, n + 1), Hidden(s, n + 2)
        PROVE  /\ Holds(s, n + 2, a, q)
               /\ Holds(s, n + 2, a, Append(q, n + 2))
               /\ Holds(s, n + 2, a, Append(Append(q, n + 2), n + 1))
    <2>1. Holds(s, n + 2, a, q)
      BY <1>1, <1>5 DEF Holds
    <2>2. Follows(s, Newest(a, q), n + 2)
      BY <1>1, <1>5 DEF Holds, Follows, Skipped
    <2>3. Holds(s, n + 2, a, Append(q, n + 2)) /\ Newest(a, Append(q, n + 2)) = n + 2
      BY <1>1, <2>2, HeldAppend
    <2>4. Append(q, n + 2) \in Seq(Nat)
      OBVIOUS
    <2>5. Follows(s, n + 2, n + 1)
      BY <1>5 DEF Follows, Skipped
    <2>6. \A x \in n + 1 + 1 .. n + 2 : Hidden(s, x)
      BY <1>5
    <2>7. Holds(s, n + 2, a, Append(Append(q, n + 2), n + 1))
      <3>1. PICK r \in Seq(Nat) : r = Append(q, n + 2)
        BY <2>4
      <3>2. PICK m \in Nat : m = n + 2
        OBVIOUS
      <3>3. PICK e \in Nat : e = n + 1
        OBVIOUS
      <3>4. /\ Holds(s, m, a, r) /\ Follows(s, Newest(a, r), e) /\ e <= m /\ m <= m
            /\ \A x \in e + 1 .. m : Hidden(s, x)
        BY <2>3, <2>5, <2>6, <3>1, <3>2, <3>3
      <3>5. Holds(s, m, a, Append(r, e))
        BY <3>4, HeldAppend
      <3> QED
        BY <3>1, <3>2, <3>3, <3>5
    <2> QED
      BY <2>1, <2>3, <2>7
  <1> QED
    BY <1>3, <1>4, <1>5

\* The queue left when the first event is taken still holds everything.
LEMMA HeldTail ==
    ASSUME NEW s, NEW n \in Nat, NEW a \in Nat, NEW q \in Seq(Nat), q # <<>>, Holds(s, n, a, q)
    PROVE  /\ Head(q) \in Nat /\ Tail(q) \in Seq(Nat)
           /\ Follows(s, a, Head(q)) /\ Holds(s, n, Head(q), Tail(q))
  <1>1. Continues(s, a, q)
    BY DEF Holds
  <1>2. /\ Head(q) \in Nat /\ Tail(q) \in Seq(Nat)
        /\ Follows(s, a, Head(q)) /\ Continues(s, Head(q), Tail(q))
        /\ Newest(Head(q), Tail(q)) = Newest(a, q)
    BY <1>1, Taken
  <1>3. /\ Head(q) = q[1] /\ 1 \in 1..Len(q)
        /\ \A i \in 1..Len(Tail(q)) : Tail(q)[i] = q[i + 1] /\ i + 1 \in 1..Len(q)
    OBVIOUS
  <1> QED
    BY <1>2, <1>3 DEF Holds

\* A queue that continues at b also continues at a later a, if nothing that is
\* public is between them.
LEMMA HeldLater ==
    ASSUME NEW s, NEW n \in Nat, NEW a \in Nat, NEW b \in Nat, NEW q \in Seq(Nat),
           b <= a, a <= n, Follows(s, a, b), Holds(s, n, b, q)
    PROVE  Holds(s, n, a, q)
  <1>1. \A e \in b..a : Hidden(s, e)
    BY DEF Follows, Skipped
  <1>2. ASSUME NEW c \in Nat, Follows(s, b, c) PROVE Follows(s, a, c)
    BY <1>1, <1>2 DEF Follows, Skipped
  <1>3. ASSUME NEW i \in 1..Len(q) PROVE Follows(s, Before(a, q, i), q[i])
    <2>1. Follows(s, Before(b, q, i), q[i]) /\ q[i] \in Nat
      BY DEF Holds, Continues
    <2> QED
      BY <1>2, <2>1 DEF Before
  <1>4. \A e \in Newest(a, q) + 1 .. n : Hidden(s, e)
    <2>1. CASE q = <<>>
      <3>1. Newest(a, q) = a /\ Newest(b, q) = b
        BY <2>1, NewestOf
      <3> QED
        BY <3>1 DEF Holds
    <2>2. CASE q # <<>>
      <3>1. Newest(a, q) = Newest(b, q)
        BY <2>2, NewestOf
      <3> QED
        BY <3>1 DEF Holds
    <2> QED
      BY <2>1, <2>2
  <1> QED
    BY <1>3, <1>4 DEF Holds, Continues

\* No connection.
LEMMA NoConnOK ==
    ASSUME NEW s, NEW n \in Nat, NEW b
    PROVE  /\ ConnOK(s, n, NoConn) /\ NoConn.base = 0 /\ NoConn.read = 0
           /\ LET c == [NoConn EXCEPT !.phase = "requested", !.newest = b]
              IN  ConnOK(s, n, c) /\ c.base = 0 /\ c.read = 0
  BY DEF ConnOK, ConnShape, ConnFields, NoConn, Continues

\* What a connection was written does not change when it closes.
LEMMA ClosedOK ==
    ASSUME NEW s, NEW n \in Nat, NEW m \in Nat, NEW c, ConnOK(s, n, c)
    PROVE  ConnOK(s, m, Closed(c))
  BY DEF ConnOK, ConnShape, ConnFields, Closed

\* Neither the generation nor the reader's position is of interest.
LEMMA ConnAlike ==
    ASSUME NEW s, NEW n, NEW c, NEW d, ConnOK(s, n, c), ConnShape(d),
           d.phase = c.phase, d.base = c.base, d.high = c.high, d.delivered = c.delivered,
           d.frames = c.frames, d.buffer = c.buffer, d.pump = c.pump
    PROVE  ConnOK(s, n, d)
  BY DEF ConnOK, Mark

\* appendEvent: the listener holds what was published, or the stream closes.
LEMMA StreamAppend ==
    ASSUME StreamInv, AppendEvent
    PROVE  StreamInv'
  <1>1. /\ last \in Nat /\ last' = last + 1 /\ UNCHANGED <<script, acked>>
        /\ ConnOK(script, last, conn) /\ ConnShape(conn)
    BY DEF StreamInv, JournalOK, AppendEvent, ConnOK
  <1>2. JournalOK'
    BY <1>1 DEF StreamInv, JournalOK
  <1>3. /\ Mark(conn) \in Nat /\ Newest(conn.base, conn.frames) \in Nat
        /\ script[last + 1] = "silent" => Hidden(script, last + 1)
    BY <1>1, NewestOf DEF Mark, ConnShape, Hidden, PublicKinds
  <1>4. CASE conn' = conn /\ (script[last + 1] = "silent" \/ conn.phase \notin {"replay", "live"})
    <2>1. ASSUME conn.phase = "replay" PROVE Holds(script, last + 1, Mark(conn), conn.buffer)
      BY <1>1, <1>3, <1>4, <2>1, Held DEF ConnOK, ConnShape
    <2>2. ASSUME conn.phase = "live"
          PROVE  Holds(script, last + 1, Newest(conn.base, conn.frames), conn.pump)
      BY <1>1, <1>3, <1>4, <2>2, Held DEF ConnOK, ConnShape
    <2>3. ConnOK(script, last + 1, conn)
      BY <1>1, <2>1, <2>2 DEF ConnOK, ConnShape
    <2> QED
      BY <1>1, <1>2, <1>4, <2>3 DEF StreamInv
  <1>5. CASE conn.phase = "replay" /\ conn' = [conn EXCEPT !.buffer = Append(@, last + 1)]
    <2>1. /\ ConnShape(conn') /\ conn'.phase = "replay" /\ Mark(conn') = Mark(conn)
          /\ conn'.buffer = Append(conn.buffer, last + 1) /\ conn'.base = conn.base
          /\ conn'.frames = conn.frames /\ conn'.pump = conn.pump
          /\ conn'.delivered = conn.delivered /\ conn'.high = conn.high
      BY <1>1, <1>5 DEF ConnShape, ConnFields, Mark
    <2>2. Holds(script, last + 1, Mark(conn), Append(conn.buffer, last + 1))
      BY <1>1, <1>3, <1>5, Held DEF ConnOK, ConnShape
    <2>3. conn.high <= last + 1
      BY <1>1, <1>5 DEF ConnOK, ConnShape
    <2>4. ConnOK(script, last + 1, conn')
      BY <1>1, <1>5, <2>1, <2>2, <2>3 DEF ConnOK
    <2> QED
      BY <1>1, <1>2, <2>4 DEF StreamInv
  <1>6. CASE conn.phase = "live" /\ conn' = [conn EXCEPT !.pump = Append(@, last + 1)]
    <2>1. /\ ConnShape(conn') /\ conn'.phase = "live"
          /\ conn'.pump = Append(conn.pump, last + 1) /\ conn'.base = conn.base
          /\ conn'.frames = conn.frames
      BY <1>1, <1>6 DEF ConnShape, ConnFields
    <2>2. Holds(script, last + 1, Newest(conn.base, conn.frames), Append(conn.pump, last + 1))
      BY <1>1, <1>3, <1>6, Held DEF ConnOK, ConnShape
    <2>3. ConnOK(script, last + 1, conn')
      BY <1>1, <1>6, <2>1, <2>2 DEF ConnOK, ConnShape
    <2> QED
      BY <1>1, <1>2, <2>3 DEF StreamInv
  <1>7. CASE conn' = Closed(conn)
    BY <1>1, <1>2, <1>7, ClosedOK DEF StreamInv
  <1> QED
    BY <1>4, <1>5, <1>6, <1>7 DEF AppendEvent, Notified

\* What the listener does with an event, to the queues and else.
LEMMA NotifiedOf ==
    ASSUME NEW c, NEW e \in Nat, ConnShape(c)
    PROVE  LET d == Notified(c, e)
           IN  \/ d = c /\ c.phase \notin {"replay", "live"}
               \/ d = Closed(c) /\ d.phase = "closed"
               \/ /\ ConnShape(d) /\ d.phase = c.phase /\ d.base = c.base /\ d.high = c.high
                  /\ d.delivered = c.delivered /\ d.frames = c.frames
                  /\ \/ /\ c.phase = "replay" /\ d.buffer = Append(c.buffer, e)
                        /\ d.pump = c.pump
                     \/ /\ c.phase = "live" /\ d.pump = Append(c.pump, e)
                        /\ d.buffer = c.buffer
  BY DEF Notified, Closed, ConnShape, ConnFields

\* The queue of the listener, while it has one.
LEMMA ContinuationHeld ==
    ASSUME NEW s, NEW n \in Nat, NEW c, NEW d, NEW m \in Nat, ConnOK(s, n, c), ConnShape(d),
           n <= m, d.phase = c.phase, d.base = c.base, d.high = c.high,
           d.delivered = c.delivered, d.frames = c.frames,
           \/ /\ c.phase = "replay" /\ d.pump = c.pump /\ Holds(s, m, Mark(c), d.buffer)
           \/ /\ c.phase = "live" /\ Holds(s, m, Newest(c.base, c.frames), d.pump)
    PROVE  ConnOK(s, m, d)
  <1>1. Mark(d) = Mark(c)
    BY DEF Mark
  <1>2. c.phase = "replay" => c.high <= m
    BY DEF ConnOK, ConnShape
  <1> QED
    BY <1>1, <1>2 DEF ConnOK

\* startQueuedContinuation: neither event of the pair is public, so either
\* order, and either part of it, continues the queue.
LEMMA StreamContinuation ==
    ASSUME StreamInv, StartContinuation
    PROVE  StreamInv'
  <1> DEFINE c == conn
             d == Notified(c, last + 2)
             f == Notified(d, last + 1)
  <1>1. /\ last \in Nat /\ last' = last + 2 /\ UNCHANGED <<script, acked>>
        /\ ConnOK(script, last, c) /\ ConnShape(c) /\ (conn' = d \/ conn' = f)
        /\ Hidden(script, last + 1) /\ Hidden(script, last + 2)
    BY DEF StreamInv, JournalOK, StartContinuation, ConnOK, Hidden, PublicKinds
  <1>2. JournalOK'
    BY <1>1 DEF StreamInv, JournalOK
  <1>3. SUFFICES ConnOK(script, last + 2, conn')
    BY <1>1, <1>2 DEF StreamInv
  <1>4. last + 1 \in Nat /\ last + 2 \in Nat /\ last <= last + 2
    BY <1>1
  <1>5. /\ Mark(c) \in Nat /\ Newest(c.base, c.frames) \in Nat
        /\ c.buffer \in Seq(Nat) /\ c.pump \in Seq(Nat)
    BY <1>1, NewestOf DEF Mark, ConnShape
  <1>6. CASE d = c /\ c.phase \notin {"replay", "live"}
    <2>1. f = c
      BY <1>6 DEF Notified
    <2> QED
      BY <1>1, <1>6, <2>1 DEF ConnOK
  <1>7. CASE d = Closed(c) /\ d.phase = "closed"
    <2>1. f = d
      BY <1>7 DEF Notified
    <2> QED
      BY <1>1, <1>4, <1>7, <2>1, ClosedOK
  <1>8. CASE /\ ConnShape(d) /\ d.phase = c.phase /\ d.base = c.base /\ d.high = c.high
             /\ d.delivered = c.delivered /\ d.frames = c.frames
             /\ \/ /\ c.phase = "replay" /\ d.buffer = Append(c.buffer, last + 2)
                   /\ d.pump = c.pump
                \/ /\ c.phase = "live" /\ d.pump = Append(c.pump, last + 2)
                   /\ d.buffer = c.buffer
    <2> HIDE DEF d
    <2>1. ConnOK(script, last + 2, d)
      <3>1. \/ /\ c.phase = "replay" /\ d.pump = c.pump
               /\ Holds(script, last + 2, Mark(c), d.buffer)
            \/ /\ c.phase = "live"
               /\ Holds(script, last + 2, Newest(c.base, c.frames), d.pump)
        BY <1>1, <1>5, <1>8, Held DEF ConnOK
      <3> QED
        BY <1>1, <1>4, <1>8, <3>1, ContinuationHeld
    <2>2. CASE f = d
      BY <1>1, <2>1, <2>2
    <2>3. CASE f = Closed(d)
      BY <1>1, <1>4, <2>1, <2>3, ClosedOK
    <2>4. CASE /\ ConnShape(f) /\ f.phase = d.phase /\ f.base = d.base /\ f.high = d.high
               /\ f.delivered = d.delivered /\ f.frames = d.frames
               /\ \/ /\ d.phase = "replay" /\ f.buffer = Append(d.buffer, last + 1)
                     /\ f.pump = d.pump
                  \/ /\ d.phase = "live" /\ f.pump = Append(d.pump, last + 1)
                     /\ f.buffer = d.buffer
      <3> HIDE DEF f
      <3>1. \/ /\ c.phase = "replay" /\ f.pump = c.pump
               /\ Holds(script, last + 2, Mark(c), f.buffer)
            \/ /\ c.phase = "live"
               /\ Holds(script, last + 2, Newest(c.base, c.frames), f.pump)
        BY <1>1, <1>5, <1>8, <2>4, Held DEF ConnOK
      <3>2. ConnOK(script, last + 2, f)
        BY <1>1, <1>4, <1>8, <2>4, <3>1, ContinuationHeld
      <3> QED
        BY <1>1, <2>1, <3>2
    <2> QED
      BY <1>4, <1>8, <2>2, <2>3, <2>4, NotifiedOf
  <1> QED
    BY <1>1, <1>4, <1>6, <1>7, <1>8, NotifiedOf

\* A frame that follows is written.
LEMMA FrameWritten ==
    ASSUME ConnShape(conn), NEW e \in Nat, Continues(script, conn.base, conn.frames),
           Follows(script, Newest(conn.base, conn.frames), e),
           ConnFields \subseteq DOMAIN conn', conn'.base = conn.base, conn'.high = conn.high,
           conn'.read = conn.read, conn'.delivered \in Nat,
           conn'.frames = Append(conn.frames, e),
           conn'.buffer \in Seq(Nat), conn'.pump \in Seq(Nat)
    PROVE  /\ ConnShape(conn') /\ Continues(script, conn'.base, conn'.frames)
           /\ Newest(conn'.base, conn'.frames) = e
  BY Appended DEF ConnShape

\* The server's own steps.
LEMMA StreamServer ==
    ASSUME StreamInv, Server
    PROVE  StreamInv'
  <1>1. /\ last \in Nat /\ acked \in Nat /\ acked <= last /\ UNCHANGED <<script, last, acked>>
        /\ ConnOK(script, last, conn) /\ ConnShape(conn)
    BY DEF StreamInv, JournalOK, ConnOK, Server, Accept, Reject, Replay, DrainBuffered, GoLive,
           ReplayStale, WriteLive, Heartbeat
  <1>2. JournalOK'
    BY <1>1 DEF JournalOK
  <1>3. SUFFICES ConnOK(script, last, conn')
    BY <1>1, <1>2 DEF StreamInv
  <1>4. /\ conn.base \in Nat /\ Newest(conn.base, conn.frames) \in Nat /\ Mark(conn) \in Nat
        /\ conn.buffer \in Seq(Nat) /\ conn.pump \in Seq(Nat) /\ conn.delivered \in Nat
    BY <1>1, NewestOf DEF Mark, ConnShape
  <1>5. CASE conn' = Closed(conn)
    BY <1>1, <1>5, ClosedOK
  <1>6. CASE Accept
    <2>1. /\ ConnShape(conn') /\ conn'.phase = "replay" /\ conn'.frames = <<>>
          /\ conn'.buffer = <<>> /\ conn'.pump = <<>> /\ conn'.base = acked
          /\ conn'.delivered = acked /\ conn'.high = last
      BY <1>1, <1>6 DEF Accept, ConnOK, ConnShape, ConnFields
    <2>2. Mark(conn') = last
      BY <1>1, <2>1 DEF Mark
    <2>3. Newest(acked, <<>>) = acked /\ Newest(last, <<>>) = last
      BY <1>1 DEF Newest, Before
    <2>4. Continues(script, acked, <<>>) /\ Holds(script, last, last, <<>>)
      BY <1>1, <2>3 DEF Continues, Holds
    <2> QED
      BY <1>1, <2>1, <2>2, <2>3, <2>4 DEF ConnOK
  <1>7. CASE Reject
    BY <1>1, <1>7 DEF Reject, ConnOK, ConnShape, ConnFields
  <1>8. CASE Replay
    <2> DEFINE e == conn.delivered + 1
    <2>1. /\ e \in Nat /\ conn.phase = "replay" /\ e <= conn.high
          /\ conn.delivered = Newest(conn.base, conn.frames)
          /\ Continues(script, conn.base, conn.frames)
      BY <1>1, <1>8 DEF Replay, ConnOK, ConnShape
    <2>2. Follows(script, Newest(conn.base, conn.frames), e)
      BY <1>4, <2>1 DEF Follows, Skipped
    <2>3. /\ ConnFields \subseteq DOMAIN conn' /\ conn'.base = conn.base /\ conn'.high = conn.high
          /\ conn'.read = conn.read /\ conn'.delivered = e /\ conn'.frames = Append(conn.frames, e)
          /\ conn'.buffer = conn.buffer /\ conn'.pump = conn.pump /\ conn'.phase = conn.phase
      BY <1>1, <1>8 DEF Replay, Written, ConnShape, ConnFields
    <2>4. /\ ConnShape(conn') /\ Continues(script, conn'.base, conn'.frames)
          /\ Newest(conn'.base, conn'.frames) = e
      BY <1>1, <1>4, <2>1, <2>2, <2>3, FrameWritten
    <2>5. Mark(conn') = Mark(conn)
      BY <1>1, <2>1, <2>3 DEF Mark, ConnShape
    <2> QED
      BY <1>1, <2>1, <2>3, <2>4, <2>5 DEF ConnOK
  <1>9. CASE DrainBuffered
    <2> DEFINE e == Head(conn.buffer)
    <2>1. /\ conn.phase = "replay" /\ conn.buffer # <<>> /\ conn.delivered >= conn.high
          /\ conn.delivered = Newest(conn.base, conn.frames) /\ Mark(conn) = conn.delivered
          /\ Continues(script, conn.base, conn.frames)
          /\ Holds(script, last, conn.delivered, conn.buffer)
      BY <1>1, <1>9 DEF DrainBuffered, Replayed, ConnOK, ConnShape, Mark
    <2>2. /\ e \in Nat /\ Tail(conn.buffer) \in Seq(Nat)
          /\ Follows(script, conn.delivered, e) /\ Holds(script, last, e, Tail(conn.buffer))
      BY <1>1, <2>1, HeldTail DEF ConnShape
    <2>3. CASE ~Undelivered(e)
      <3>1. e <= conn.delivered /\ conn.delivered <= last
        BY <1>1, <1>4, <2>1, <2>2, <2>3 DEF Undelivered, Holds
      <3>2. Holds(script, last, conn.delivered, Tail(conn.buffer))
        BY <1>1, <1>4, <2>2, <3>1, HeldLater
      <3>3. /\ ConnShape(conn') /\ conn'.base = conn.base /\ conn'.high = conn.high
            /\ conn'.delivered = conn.delivered /\ conn'.frames = conn.frames
            /\ conn'.buffer = Tail(conn.buffer) /\ conn'.pump = conn.pump
            /\ conn'.phase = conn.phase
        BY <1>1, <1>9, <2>2, <2>3 DEF DrainBuffered, ConnShape, ConnFields
      <3>4. Mark(conn') = conn.delivered
        BY <1>1, <2>1, <3>3 DEF Mark, ConnShape
      <3> QED
        BY <1>1, <2>1, <3>2, <3>3, <3>4 DEF ConnOK
    <2> SUFFICES ASSUME Undelivered(e) PROVE ConnOK(script, last, conn')
      BY <2>3
    <2>4. /\ ConnFields \subseteq DOMAIN conn' /\ conn'.base = conn.base /\ conn'.high = conn.high
          /\ conn'.read = conn.read /\ conn'.delivered = e /\ conn'.frames = Append(conn.frames, e)
          /\ conn'.buffer = Tail(conn.buffer) /\ conn'.pump = conn.pump /\ conn'.phase = conn.phase
      BY <1>1, <1>9 DEF DrainBuffered, Written, ConnShape, ConnFields
    <2>5. /\ ConnShape(conn') /\ Continues(script, conn'.base, conn'.frames)
          /\ Newest(conn'.base, conn'.frames) = e
      BY <1>1, <1>4, <2>1, <2>2, <2>4, FrameWritten
    <2>6. Mark(conn') = e
      BY <1>1, <2>1, <2>2, <2>4 DEF Mark, ConnShape, Undelivered
    <2> QED
      BY <1>1, <2>1, <2>2, <2>4, <2>5, <2>6 DEF ConnOK
  <1>10. CASE GoLive
    <2>1. /\ conn.phase = "replay" /\ conn.buffer = <<>> /\ conn.pump = <<>>
          /\ conn.delivered = Newest(conn.base, conn.frames) /\ Mark(conn) = conn.delivered
          /\ Holds(script, last, Newest(conn.base, conn.frames), conn.pump)
      BY <1>1, <1>10 DEF GoLive, Replayed, ConnOK, ConnShape, Mark
    <2>2. /\ ConnShape(conn') /\ conn'.phase = "live" /\ conn'.base = conn.base
          /\ conn'.frames = conn.frames /\ conn'.pump = conn.pump
      BY <1>1, <1>10 DEF GoLive, ConnShape, ConnFields
    <2> QED
      BY <1>1, <2>1, <2>2 DEF ConnOK
  <1>11. CASE WriteLive /\ conn.newest
    <2> DEFINE e == Head(conn.pump)
    <2>1. /\ conn.phase = "live" /\ conn.pump # <<>>
          /\ Continues(script, conn.base, conn.frames)
          /\ Holds(script, last, Newest(conn.base, conn.frames), conn.pump)
      BY <1>1, <1>11 DEF WriteLive, ConnOK
    <2>2. /\ e \in Nat /\ Tail(conn.pump) \in Seq(Nat)
          /\ Follows(script, Newest(conn.base, conn.frames), e)
          /\ Holds(script, last, e, Tail(conn.pump))
      BY <1>1, <1>4, <2>1, HeldTail DEF ConnShape
    <2>3. /\ ConnFields \subseteq DOMAIN conn' /\ conn'.base = conn.base /\ conn'.high = conn.high
          /\ conn'.read = conn.read /\ conn'.delivered = conn.delivered
          /\ conn'.frames = Append(conn.frames, e)
          /\ conn'.buffer = conn.buffer /\ conn'.pump = Tail(conn.pump) /\ conn'.phase = conn.phase
      BY <1>1, <1>11 DEF WriteLive, Written, ConnShape, ConnFields
    <2>4. /\ ConnShape(conn') /\ Continues(script, conn'.base, conn'.frames)
          /\ Newest(conn'.base, conn'.frames) = e
      BY <1>1, <1>4, <2>1, <2>2, <2>3, FrameWritten
    <2> QED
      BY <1>1, <2>1, <2>2, <2>3, <2>4 DEF ConnOK
  <1> QED
    BY <1>5, <1>6, <1>7, <1>8, <1>9, <1>10, <1>11 DEF Server, ReplayStale, WriteLive, Heartbeat

-----------------------------------------------------------------------------
(* 2. The cursor.                                                          *)

\* all that is public in the journal s up to n is in h
Through(s, h, n) == \A e \in 1..n : Hidden(s, e) \/ e \in h

StreamFields == {"stage", "after", "newest", "due", "retry"}

StreamShape == StreamFields \subseteq DOMAIN stream /\ stream.due \in Nat

AcksOK ==
    \A a \in acks : /\ {"newest", "seq"} \subseteq DOMAIN a /\ a.seq \in Nat
                    /\ Through(script, handled, a.seq)

\* the reader awaits the handler of the frame it has read last
ReaderOK ==
    IF handler = NoHandler
    THEN Through(script, handled, Before(conn.base, conn.frames, conn.read + 1))
    ELSE /\ stream.stage = "open" /\ conn.read > 0
         /\ handler.seq = conn.frames[conn.read]
         /\ Through(script, handled, Before(conn.base, conn.frames, conn.read))

\* whatever is due, on its way or durable was handled, with all before it
CursorInv ==
    /\ StreamShape
    /\ Through(script, handled, acked)
    /\ Through(script, handled, stream.due)
    /\ AcksOK
    /\ ReaderOK

SyncInv == StreamInv /\ CursorInv

\* What was handled stays handled.
LEMMA ThroughMore ==
    ASSUME NEW s, NEW h, NEW g, h \subseteq g, NEW n, Through(s, h, n)
    PROVE  Through(s, g, n)
  BY DEF Through

\* The next event is handled.
LEMMA ThroughNext ==
    ASSUME NEW s, NEW h, NEW a \in Nat, NEW b \in Nat, Through(s, h, a), Follows(s, a, b)
    PROVE  Through(s, h \cup {b}, b)
  BY DEF Through, Follows, Skipped

\* The position before a frame is one.
LEMMA BeforeNat ==
    ASSUME ConnShape(conn), NEW i \in 1..(Len(conn.frames) + 1)
    PROVE  Before(conn.base, conn.frames, i) \in Nat
  BY DEF ConnShape, Before

\* acknowledger.schedule
LEMMA DueOf ==
    ASSUME stream.due \in Nat, NEW e \in Nat
    PROVE  Due(e) \in Nat /\ Due(e) \in {stream.due, e}
  <1>1. \E x \in {stream.due, e} : \A y \in {stream.due, e} : x >= y
    OBVIOUS
  <1> QED
    BY <1>1 DEF Due, Max

\* What is due is flushed.
LEMMA FlushedOK ==
    ASSUME AcksOK, NEW d \in Nat, script' = script, handled \subseteq handled',
           Through(script, handled', d), acks' = acks \/ acks' = Flush(d)
    PROVE  AcksOK'
  <1>1. ASSUME NEW a \in acks PROVE Through(script, handled', a.seq)
    BY <1>1, ThroughMore DEF AcksOK
  <1> QED
    BY <1>1 DEF AcksOK, Flush

\* Nothing comes before the first event.
LEMMA ThroughNothing ==
    ASSUME NEW s, NEW h
    PROVE  Through(s, h, 0)
  BY DEF Through

\* Frames that were written stay where they are.
LEMMA FramesKept ==
    ASSUME NEW f \in Seq(Nat), NEW g, NEW a, g = f \/ \E e : g = Append(f, e)
    PROVE  /\ \A i \in 1..Len(f) : g[i] = f[i]
           /\ \A i \in 1..(Len(f) + 1) : Before(a, g, i) = Before(a, f, i)
  <1>1. ASSUME NEW i \in 1..Len(f) PROVE g[i] = f[i]
    OBVIOUS
  <1>2. ASSUME NEW i \in 1..(Len(f) + 1) PROVE Before(a, g, i) = Before(a, f, i)
    BY <1>1 DEF Before
  <1> QED
    BY <1>1, <1>2

\* The Core's steps add frames, and start a stream at the cursor.
LEMMA CursorServer ==
    ASSUME SyncInv, AppendEvent \/ StartContinuation \/ Server, UNCHANGED clientVars
    PROVE  CursorInv'
  <1>1. /\ UNCHANGED <<script, acked, stream, handler, acks, handled>> /\ ConnShape(conn)
        /\ CursorInv /\ ConnOK(script, last, conn)
    BY DEF SyncInv, StreamInv, ConnOK, clientVars, AppendEvent, StartContinuation, Server,
           Accept, Reject, Replay, DrainBuffered, GoLive, ReplayStale, WriteLive, Heartbeat
  <1>2. SUFFICES ReaderOK'
    BY <1>1 DEF CursorInv, StreamShape, AcksOK
  <1>3. CASE Accept
    <2>1. conn.frames = <<>> /\ conn.read = 0
      BY <1>1, <1>3 DEF Accept, ConnOK, ConnShape
    <2>2. conn'.base = acked /\ conn'.frames = <<>> /\ conn'.read = 0
      BY <1>1, <1>3, <2>1 DEF Accept, ConnShape, ConnFields
    <2>3. handler = NoHandler
      BY <1>1, <2>1 DEF CursorInv, ReaderOK
    <2>4. Before(conn'.base, conn'.frames, conn'.read + 1) = acked
      BY <2>2 DEF Before
    <2> QED
      BY <1>1, <2>3, <2>4 DEF ReaderOK, CursorInv
  <1>4. CASE ~Accept
    <2>1. /\ conn'.base = conn.base /\ conn'.read = conn.read
          /\ conn'.frames = conn.frames \/ \E e : conn'.frames = Append(conn.frames, e)
      <3>1. ASSUME NEW c, NEW e, ConnFields \subseteq DOMAIN c
            PROVE  LET d == Notified(c, e)
                   IN  /\ d.base = c.base /\ d.read = c.read /\ d.frames = c.frames
                       /\ ConnFields \subseteq DOMAIN d
        BY <3>1 DEF Notified, Closed, ConnFields
      <3>2. CASE AppendEvent \/ StartContinuation
        <4>1. ConnFields \subseteq DOMAIN conn
          BY <1>1 DEF ConnShape
        <4>2. PICK d : d = Notified(conn, last + 2)
          OBVIOUS
        <4>3. /\ d.base = conn.base /\ d.read = conn.read /\ d.frames = conn.frames
              /\ ConnFields \subseteq DOMAIN d
          BY <3>1, <4>1, <4>2
        <4>4. \/ conn' = conn \/ conn' = Notified(conn, last + 1)
              \/ conn' = d \/ conn' = Notified(d, last + 1)
          BY <3>2, <4>2 DEF AppendEvent, StartContinuation
        <4>5. conn'.base = conn.base /\ conn'.read = conn.read /\ conn'.frames = conn.frames
          BY <3>1, <4>1, <4>3, <4>4
        <4> QED
          BY <4>5
      <3>3. CASE Server
        BY <1>1, <1>4, <3>3 DEF Server, Reject, Replay, DrainBuffered, GoLive, ReplayStale,
                                WriteLive, Heartbeat, Closed, Written, ConnShape, ConnFields
      <3> QED
        BY <3>2, <3>3
    <2>2. conn.frames \in Seq(Nat)
      BY <1>1 DEF ConnShape
    <2>3. /\ \A i \in 1..Len(conn.frames) : conn'.frames[i] = conn.frames[i]
          /\ \A i \in 1..(Len(conn.frames) + 1) :
                Before(conn'.base, conn'.frames, i) = Before(conn.base, conn.frames, i)
      <3>1. CASE conn'.frames = conn.frames
        BY <2>1, <3>1
      <3>2. CASE \E e : conn'.frames = Append(conn.frames, e)
        <4>1. PICK g : g = conn'.frames
          OBVIOUS
        <4>2. g = conn.frames \/ \E e : g = Append(conn.frames, e)
          BY <3>2, <4>1
        <4>3. /\ \A i \in 1..Len(conn.frames) : g[i] = conn.frames[i]
              /\ \A i \in 1..(Len(conn.frames) + 1) :
                   Before(conn.base, g, i) = Before(conn.base, conn.frames, i)
          BY <2>2, <4>2, FramesKept
        <4> QED
          BY <2>1, <4>1, <4>3
      <3> QED
        BY <2>1, <3>1, <3>2
    <2>4. conn.read + 1 \in 1..(Len(conn.frames) + 1)
      BY <1>1 DEF ConnShape
    <2>5. CASE handler = NoHandler
      BY <1>1, <2>1, <2>3, <2>4, <2>5 DEF ReaderOK, CursorInv
    <2>6. CASE handler # NoHandler
      <3>1. conn.read \in 1..Len(conn.frames)
        BY <1>1, <2>6 DEF ReaderOK, CursorInv, ConnShape
      <3> QED
        BY <1>1, <2>1, <2>3, <2>6, <3>1 DEF ReaderOK, CursorInv
    <2> QED
      BY <2>5, <2>6
  <1> QED
    BY <1>3, <1>4

\* A step that gives up the connection, and may flush what is due.
LEMMA CursorReset ==
    ASSUME SyncInv, NEW d \in Nat, UNCHANGED <<script, last, acked>>, handled \subseteq handled',
           Through(script, handled', d), acks' = acks \/ acks' = Flush(d),
           handler' = NoHandler, ConnOK(script, last, conn'), conn'.base = 0, conn'.read = 0,
           StreamFields \subseteq DOMAIN stream', stream'.due \in {0, stream.due}
    PROVE  SyncInv'
  <1>1. last \in Nat /\ acked \in Nat /\ StreamInv /\ CursorInv
    BY DEF SyncInv, StreamInv, JournalOK
  <1>2. AcksOK'
    BY <1>1, FlushedOK DEF CursorInv
  <1>3. Through(script, handled', acked) /\ Through(script, handled', stream.due)
    BY <1>1, ThroughMore DEF CursorInv
  <1>4. StreamShape' /\ Through(script, handled', stream'.due)
    <2>1. stream'.due \in Nat
      BY <1>1 DEF CursorInv, StreamShape
    <2>2. Through(script, handled', stream'.due)
      BY <1>3, ThroughNothing
    <2> QED
      BY <2>1, <2>2 DEF StreamShape
  <1>5. Before(conn'.base, conn'.frames, conn'.read + 1) = 0
    BY DEF Before
  <1>6. ReaderOK'
    BY <1>5, ThroughNothing DEF ReaderOK
  <1> QED
    BY <1>1, <1>2, <1>3, <1>4, <1>6 DEF SyncInv, StreamInv, JournalOK, CursorInv

\* A step that only the generation, the timers and the view notice.
LEMMA CursorQuiet ==
    ASSUME SyncInv, UNCHANGED <<script, last, acked, handler, handled>>,
           conn' = conn \/ conn' = Overtaken(conn),
           acks' = acks \/ acks' = {Overtaken(a) : a \in acks} \/ acks' \subseteq acks,
           StreamFields \subseteq DOMAIN stream', stream'.due = stream.due,
           stream.stage = "open" => stream'.stage = "open"
    PROVE  SyncInv'
  <1> USE DEF SyncInv
  <1>1. ConnShape(conn') /\ conn'.phase = conn.phase /\ conn'.base = conn.base
        /\ conn'.high = conn.high /\ conn'.delivered = conn.delivered
        /\ conn'.frames = conn.frames /\ conn'.buffer = conn.buffer /\ conn'.pump = conn.pump
        /\ conn'.read = conn.read
    BY DEF StreamInv, ConnOK, ConnShape, ConnFields, Overtaken
  <1>2. StreamInv'
    BY <1>1, ConnAlike DEF StreamInv, JournalOK
  <1>3. AcksOK'
    BY DEF CursorInv, AcksOK, Overtaken
  <1>4. ReaderOK'
    BY <1>1 DEF CursorInv, ReaderOK
  <1> QED
    BY <1>2, <1>3, <1>4 DEF CursorInv, StreamShape

\* The cleanup of an instance and the start of the next.
LEMMA CursorRestart ==
    ASSUME SyncInv, NEW run, NEW d \in Nat, Restart(run, d), UNCHANGED <<script, last, acked>>,
           handled \subseteq handled', Through(script, handled', d)
    PROVE  SyncInv'
  <1>1. last \in Nat
    BY DEF SyncInv, StreamInv, JournalOK
  <1>2. ConnOK(script, last, conn') /\ conn'.base = 0 /\ conn'.read = 0
    BY <1>1, NoConnOK DEF Restart
  <1>3. StreamFields \subseteq DOMAIN stream' /\ stream'.due = 0
    BY DEF Restart, NoStream, StreamFields
  <1> QED
    BY <1>2, <1>3, CursorReset DEF Restart

\* An instance ends with what it has to acknowledge.
LEMMA CursorRestartNow ==
    ASSUME SyncInv, NEW run, Restart(run, stream.due), UNCHANGED <<script, last, acked, handled>>
    PROVE  SyncInv'
  <1>1. stream.due \in Nat /\ Through(script, handled, stream.due)
    BY DEF SyncInv, CursorInv, StreamShape
  <1> QED
    BY <1>1, CursorRestart

\* A broken stream.
LEMMA CursorBreak ==
    ASSUME SyncInv, Break \/ StreamEnds, handled' = handled
    PROVE  SyncInv'
  <1>1. last \in Nat
    BY DEF SyncInv, StreamInv, JournalOK
  <1>2. /\ conn' = NoConn /\ handler' = NoHandler /\ UNCHANGED <<script, last, acked, acks>>
    BY DEF Break, StreamEnds
  <1>3. StreamFields \subseteq DOMAIN stream' /\ stream'.due = stream.due
    BY DEF SyncInv, CursorInv, StreamShape, StreamFields, Break, StreamEnds
  <1>4. ConnOK(script, last, conn') /\ conn'.base = 0 /\ conn'.read = 0
    BY <1>1, <1>2, NoConnOK
  <1> QED
    BY <1>2, <1>3, <1>4, CursorReset, ThroughNothing

\* A new connection is requested.
LEMMA CursorSubscribe ==
    ASSUME SyncInv, Subscribe
    PROVE  SyncInv'
  <1>1. last \in Nat
    BY DEF SyncInv, StreamInv, JournalOK
  <1>2. handler' = NoHandler /\ UNCHANGED <<script, last, acked, acks, handled>>
    BY DEF Subscribe, SyncInv, CursorInv, ReaderOK
  <1>3. StreamFields \subseteq DOMAIN stream' /\ stream'.due = stream.due
    BY DEF SyncInv, CursorInv, StreamShape, StreamFields, Subscribe
  <1>4. ConnOK(script, last, conn') /\ conn'.base = 0 /\ conn'.read = 0
    BY <1>1, NoConnOK DEF Subscribe
  <1> QED
    BY <1>2, <1>3, <1>4, CursorReset, ThroughNothing

\* The event a handler has finished is handled, with all before it.
LEMMA HandlerFinished ==
    ASSUME SyncInv, handler # NoHandler, handled' = handled \cup {handler.seq}
    PROVE  /\ handler.seq \in Nat /\ Due(handler.seq) \in Nat
           /\ Through(script, handled', Due(handler.seq))
           /\ Through(script, handled', Before(conn.base, conn.frames, conn.read + 1))
  <1> DEFINE e == handler.seq
             b == Before(conn.base, conn.frames, conn.read)
  <1>1. /\ stream.due \in Nat /\ Through(script, handled, stream.due)
        /\ conn.read > 0 /\ e = conn.frames[conn.read] /\ Through(script, handled, b)
        /\ ConnShape(conn) /\ Continues(script, conn.base, conn.frames)
    BY DEF SyncInv, CursorInv, StreamShape, ReaderOK, StreamInv, ConnOK
  <1>2. conn.read \in 1..Len(conn.frames) /\ e \in Nat
    BY <1>1 DEF ConnShape
  <1>3. b \in Nat
    BY <1>1, <1>2, BeforeNat DEF ConnShape
  <1>4. Follows(script, b, e)
    BY <1>1, <1>2 DEF Continues
  <1>5. Through(script, handled', e)
    BY <1>1, <1>2, <1>3, <1>4, ThroughNext
  <1>6. Due(e) \in Nat /\ Due(e) \in {stream.due, e}
    BY <1>1, <1>2, DueOf
  <1>7. Through(script, handled', stream.due)
    BY <1>1, ThroughMore
  <1>8. Before(conn.base, conn.frames, conn.read + 1) = e
    BY <1>1, <1>2 DEF Before
  <1> QED
    BY <1>2, <1>5, <1>6, <1>7, <1>8

\* The stream goes on after a handler.
LEMMA CursorGoesOn ==
    ASSUME SyncInv, handler # NoHandler, handled' = handled \cup {handler.seq},
           UNCHANGED <<script, last, acked>>, StreamGoesOn(Due(handler.seq))
    PROVE  SyncInv'
  <1>1. /\ UNCHANGED <<script, last, acked, acks, conn>> /\ handler' = NoHandler
        /\ handled' = handled \cup {handler.seq}
    BY DEF StreamGoesOn
  <1>2. /\ Due(handler.seq) \in Nat
        /\ Through(script, handled', Due(handler.seq))
        /\ Through(script, handled', Before(conn.base, conn.frames, conn.read + 1))
    BY <1>1, HandlerFinished
  <1>3. StreamFields \subseteq DOMAIN stream' /\ stream'.due = Due(handler.seq)
    BY DEF SyncInv, CursorInv, StreamShape, StreamFields, StreamGoesOn
  <1>4. StreamInv' /\ CursorInv
    BY <1>1 DEF SyncInv, StreamInv, JournalOK
  <1>5. AcksOK'
    BY <1>1, <1>2, <1>4, FlushedOK DEF CursorInv
  <1>6. Through(script, handled', acked)
    BY <1>1, <1>4, ThroughMore DEF CursorInv
  <1>7. ReaderOK'
    BY <1>1, <1>2 DEF ReaderOK
  <1> QED
    BY <1>1, <1>2, <1>3, <1>4, <1>5, <1>6, <1>7 DEF SyncInv, CursorInv, StreamShape

\* The handler, when it is done.
LEMMA CursorHandler ==
    ASSUME SyncInv, TerminalRefreshed
    PROVE  SyncInv'
  <1>1. /\ handler # NoHandler /\ handled' = handled \cup {handler.seq}
        /\ UNCHANGED <<script, last, acked>>
    BY DEF TerminalRefreshed
  <1>2. Due(handler.seq) \in Nat /\ Through(script, handled', Due(handler.seq))
    BY <1>1, HandlerFinished
  <1>3. \/ StreamGoesOn(Due(handler.seq))
        \/ \E run : Restart(run, Due(handler.seq))
    BY DEF TerminalRefreshed, Show
  <1>4. ASSUME NEW run, Restart(run, Due(handler.seq)) PROVE SyncInv'
    BY <1>1, <1>2, <1>4, CursorRestart
  <1> QED
    BY <1>1, <1>3, <1>4, CursorGoesOn

\* The frame to be read next.
LEMMA NextFrame ==
    ASSUME ConnShape(conn), conn.read < Len(conn.frames)
    PROVE  /\ conn.read + 1 \in 1..Len(conn.frames)
           /\ conn.frames[conn.read + 1] \in Nat
           /\ Before(conn.base, conn.frames, conn.read + 1) \in Nat
  <1>1. conn.read \in Nat /\ conn.frames \in Seq(Nat) /\ Len(conn.frames) \in Nat
    BY DEF ConnShape
  <1>2. /\ conn.read + 1 \in 1..Len(conn.frames)
        /\ conn.read + 1 \in 1..(Len(conn.frames) + 1)
    BY <1>1
  <1> QED
    BY <1>1, <1>2, BeforeNat

\* The next frame is read: handled at once, or given to a handler.
LEMMA CursorReceive ==
    ASSUME SyncInv, Receive
    PROVE  SyncInv'
  <1> DEFINE e == conn.frames[conn.read + 1]
             b == Before(conn.base, conn.frames, conn.read + 1)
  <1>1. /\ StreamInv /\ CursorInv /\ ConnOK(script, last, conn) /\ ConnShape(conn)
        /\ Continues(script, conn.base, conn.frames)
        /\ UNCHANGED <<script, last, acked, acks>>
        /\ stream.stage = "open" /\ handler = NoHandler /\ conn.read < Len(conn.frames)
        /\ conn' = [conn EXCEPT !.read = @ + 1]
    BY DEF SyncInv, StreamInv, ConnOK, Receive
  <1>2. conn.read + 1 \in 1..Len(conn.frames) /\ e \in Nat /\ b \in Nat
    BY <1>1, NextFrame
  <1>3. Through(script, handled, b) /\ b \in Nat
    BY <1>1, <1>2 DEF CursorInv, ReaderOK
  <1>4. Follows(script, b, e)
    BY <1>1, <1>2 DEF Continues
  <1>5. /\ ConnShape(conn') /\ conn'.read = conn.read + 1 /\ conn'.phase = conn.phase
        /\ conn'.base = conn.base /\ conn'.frames = conn.frames /\ conn'.high = conn.high
        /\ conn'.delivered = conn.delivered /\ conn'.buffer = conn.buffer
        /\ conn'.pump = conn.pump
    BY <1>1, <1>2 DEF ConnShape, ConnFields
  <1>6. StreamInv'
    BY <1>1, <1>5, ConnAlike DEF StreamInv, JournalOK
  <1>7. stream.due \in Nat /\ Through(script, handled, stream.due)
    BY <1>1 DEF CursorInv, StreamShape
  <1>8. CASE handled' = handled \cup {e} /\ handler' = NoHandler
             /\ stream' = [stream EXCEPT !.due = Due(e)]
    <2>1. Through(script, handled', e)
      BY <1>2, <1>3, <1>4, <1>8, ThroughNext
    <2>2. Due(e) \in Nat /\ Due(e) \in {stream.due, e}
      BY <1>2, <1>7, DueOf
    <2>3. Through(script, handled', stream.due) /\ Through(script, handled', acked)
      BY <1>1, <1>7, <1>8, ThroughMore DEF CursorInv
    <2>4. StreamFields \subseteq DOMAIN stream' /\ stream'.due = Due(e)
      BY <1>1, <1>8 DEF CursorInv, StreamShape, StreamFields
    <2>5. StreamShape' /\ Through(script, handled', stream'.due)
      BY <2>1, <2>2, <2>3, <2>4 DEF StreamShape
    <2>6. AcksOK'
      BY <1>1, <1>2, <1>8, <2>1, FlushedOK DEF CursorInv
    <2>7. Before(conn'.base, conn'.frames, conn'.read + 1) = e
      BY <1>1, <1>2, <1>5 DEF Before, ConnShape
    <2>8. ReaderOK'
      BY <1>1, <1>8, <2>1, <2>7 DEF ReaderOK
    <2> QED
      BY <1>1, <1>6, <2>3, <2>5, <2>6, <2>8 DEF SyncInv, CursorInv
  <1>9. CASE /\ handled' = handled /\ handler' = [seq |-> e, from |-> last]
             /\ stream' = [stream EXCEPT !.due = stream.due]
             /\ ~Plain(e)
    <2>1. e > 0 /\ handler'.seq = e /\ handler' # NoHandler
      <3>1. ~Hidden(script, e)
        BY <1>9 DEF Plain, Terminal, Hidden, PublicKinds
      <3>2. b < e
        BY <1>2, <1>4, <3>1 DEF Follows, Skipped
      <3> QED
        BY <1>2, <1>9, <3>2 DEF NoHandler
    <2>2. /\ StreamFields \subseteq DOMAIN stream' /\ stream'.due = stream.due
          /\ stream'.stage = "open"
      BY <1>1, <1>9 DEF CursorInv, StreamShape, StreamFields
    <2>3. conn'.read > 0 /\ e = conn'.frames[conn'.read]
      BY <1>1, <1>2, <1>5 DEF ConnShape
    <2>4. ReaderOK'
      BY <1>1, <1>3, <1>5, <1>9, <2>1, <2>2, <2>3 DEF ReaderOK
    <2> QED
      BY <1>1, <1>6, <1>7, <1>9, <2>2, <2>4 DEF SyncInv, CursorInv, StreamShape, AcksOK
  <1> QED
    BY <1>1, <1>8, <1>9 DEF Receive, DueAtStart

\* What is due is sent.
LEMMA CursorAckTimer ==
    ASSUME SyncInv, AckTimer
    PROVE  SyncInv'
  <1>1. /\ UNCHANGED <<script, last, acked, conn, handler, handled>>
        /\ acks' = Flush(stream.due) /\ stream' = [stream EXCEPT !.due = 0]
        /\ StreamInv /\ CursorInv
    BY DEF AckTimer, serverVars, SyncInv
  <1>2. stream.due \in Nat /\ Through(script, handled, stream.due)
    BY <1>1 DEF CursorInv, StreamShape
  <1>3. /\ StreamFields \subseteq DOMAIN stream' /\ stream'.due = 0
        /\ stream'.stage = stream.stage
    BY <1>1 DEF CursorInv, StreamShape, StreamFields
  <1>4. AcksOK'
    BY <1>1, <1>2, FlushedOK DEF CursorInv
  <1>5. ReaderOK'
    BY <1>1, <1>3 DEF CursorInv, ReaderOK
  <1>6. StreamShape' /\ Through(script, handled, stream'.due)
    BY <1>3, ThroughNothing DEF StreamShape
  <1>7. StreamInv'
    BY <1>1 DEF StreamInv, JournalOK
  <1> QED
    BY <1>1, <1>4, <1>5, <1>6, <1>7 DEF SyncInv, CursorInv

\* An acknowledgement moves the cursor, if it moves it at all, to what was handled.
LEMMA CursorAckArrives ==
    ASSUME SyncInv, AckArrives
    PROVE  SyncInv'
  <1>1. PICK a \in acks : acks' = acks \ {a} /\ AckEventConsumer(a)
    BY DEF AckArrives
  <1>2. /\ UNCHANGED <<script, last, conn, stream, handler, handled>>
        /\ StreamInv /\ CursorInv
    BY DEF AckArrives, SyncInv
  <1>3. a.seq \in Nat /\ Through(script, handled, a.seq)
    BY <1>1, <1>2 DEF CursorInv, AcksOK
  <1>4. acked' = acked \/ (acked' = a.seq /\ a.seq <= last)
    BY <1>1 DEF AckEventConsumer, AckAccepted
  <1>5. JournalOK' /\ Through(script, handled, acked')
    BY <1>2, <1>3, <1>4 DEF StreamInv, JournalOK, CursorInv
  <1>6. AcksOK'
    BY <1>1, <1>2 DEF CursorInv, AcksOK
  <1> QED
    BY <1>2, <1>5, <1>6 DEF SyncInv, StreamInv, CursorInv, StreamShape, ReaderOK

\* A snapshot or a new generation restarts the instance or lets it be.
LEMMA CursorApply ==
    ASSUME SyncInv, PollCommit \/ LoadDone \/ EnterWorkspace \/ TimerFires \/ RegainAttention
    PROVE  SyncInv'
  <1>1. UNCHANGED <<script, last, acked, handled>>
    BY DEF PollCommit, LoadDone, EnterWorkspace, TimerFires, RegainAttention
  <1>2. \/ \E run : Restart(run, stream.due)
        \/ UNCHANGED <<conn, handler, acks>>
           /\ (stream' = stream \/ stream' = [stream EXCEPT !.retry = FALSE])
    BY DEF PollCommit, LoadDone, EnterWorkspace, TimerFires, RegainAttention, Generation, Apply,
           Enter
  <1>3. ASSUME NEW run, Restart(run, stream.due) PROVE SyncInv'
    BY <1>1, <1>3, CursorRestartNow
  <1>4. CASE UNCHANGED <<conn, handler, acks>>
             /\ (stream' = stream \/ stream' = [stream EXCEPT !.retry = FALSE])
    <2>1. /\ StreamFields \subseteq DOMAIN stream' /\ stream'.due = stream.due
          /\ stream'.stage = stream.stage
      BY <1>4 DEF SyncInv, CursorInv, StreamShape, StreamFields
    <2> QED
      BY <1>1, <1>4, <2>1, CursorQuiet
  <1> QED
    BY <1>2, <1>3, <1>4

\* A claim overtakes the other holders of a generation.
LEMMA CursorClaim ==
    ASSUME SyncInv, Claim \/ ClaimLate
    PROVE  SyncInv'
  <1>1. /\ UNCHANGED <<script, last, acked, handler, handled>>
        /\ conn' = Overtaken(conn) /\ acks' = {Overtaken(a) : a \in acks}
    BY DEF Claim, ClaimLate, OthersOvertaken
  <1>2. /\ StreamFields \subseteq DOMAIN stream' /\ stream'.due = stream.due
        /\ stream.stage = "open" => stream'.stage = "open"
    BY DEF SyncInv, CursorInv, StreamShape, StreamFields, Claim, ClaimLate, Overtaken
  <1> QED
    BY <1>1, <1>2, CursorQuiet

\* Every step keeps the stream and the cursor.
LEMMA SyncNext == SyncInv /\ [Next]_vars => SyncInv'
  <1> SUFFICES ASSUME SyncInv, [Next]_vars PROVE SyncInv'
    OBVIOUS
  <1>1. ASSUME UNCHANGED <<script, last, acked, conn, stream, handler, handled>>,
               acks' \subseteq acks
        PROVE  SyncInv'
    BY <1>1, CursorQuiet DEF SyncInv, CursorInv, StreamShape
  <1>2. CASE \/ UNCHANGED vars \/ Age \/ LoseAttention \/ PollStart \/ PollDropped \/ PollFails
             \/ LoadFails \/ AckLost
    BY <1>1, <1>2 DEF vars, serverVars, clientVars, Age, LoseAttention, PollStart, PollDropped,
                      PollFails, PollEnds, LoadFails, AckLost
  <1>3. CASE Journal \/ Serve
    BY <1>3, CursorServer, StreamAppend, StreamContinuation, StreamServer
       DEF Journal, Serve, SyncInv
  <1>4. CASE \/ StreamRefused \/ StreamEnds \/ StreamFails \/ ClaimFails \/ HandlerFails
    BY <1>4, CursorBreak DEF StreamRefused, StreamEnds, StreamFails, ClaimFails, HandlerFails
  <1> QED
    BY <1>2, <1>3, <1>4, CursorSubscribe, CursorHandler, CursorReceive, CursorAckTimer,
       CursorAckArrives, CursorApply, CursorClaim DEF Next, Effect, Handler, Polling, Acks

\* Nothing is journaled, written or acknowledged in the initial state.
LEMMA SyncInit == Init => SyncInv
  <1> SUFFICES ASSUME Init PROVE SyncInv
    OBVIOUS
  <1>1. last = 0 /\ acked = 0 /\ conn = NoConn /\ stream = NoStream /\ handler = NoHandler
        /\ acks = {}
    BY DEF Init, ServerInit
  <1>2. ConnOK(script, 0, NoConn) /\ NoConn.base = 0 /\ NoConn.read = 0
    BY NoConnOK
  <1>5. StreamInv
    BY <1>1, <1>2 DEF StreamInv, JournalOK
  <1>3. StreamShape /\ stream.due = 0
    BY <1>1 DEF StreamShape, StreamFields, NoStream
  <1>4. ReaderOK
    BY <1>1, <1>2, ThroughNothing DEF ReaderOK, Before
  <1> QED
    BY <1>1, <1>3, <1>4, <1>5, ThroughNothing DEF SyncInv, CursorInv, AcksOK

\* Stream and cursor in every reachable state.
LEMMA SyncHolds == Spec => []SyncInv
  BY SyncInit, SyncNext, PTL DEF Spec

(***************************************************************************)
(* event-routes.ts: on every connection the frames continue from the       *)
(* durable cursor with each public event once and in order.  Between       *)
(* replay, buffer and pump no public event is lost or written twice,       *)
(* whatever is journaled meanwhile, in whatever order the start of a       *)
(* continuation is published and whatever the limits are; a stream that    *)
(* cannot hold an event is closed instead.                                 *)
(***************************************************************************)
THEOREM StreamHasNoGap == Spec => []StreamIsGapless
  <1>1. SyncInv => StreamIsGapless
    <2> SUFFICES ASSUME SyncInv, NEW i \in DOMAIN conn.frames
                 PROVE  LET previous == IF i = 1 THEN conn.base ELSE conn.frames[i - 1]
                        IN  \A e \in Skipped(previous, conn.frames[i]) : ~Public(e)
      BY DEF StreamIsGapless
    <2>1. ConnShape(conn) /\ Continues(script, conn.base, conn.frames)
      BY DEF SyncInv, StreamInv, ConnOK
    <2>2. i \in 1..Len(conn.frames) /\ conn.frames[i] \in Nat
          /\ Before(conn.base, conn.frames, i) \in Nat
      <3>1. conn.frames \in Seq(Nat)
        BY <2>1 DEF ConnShape
      <3>2. i \in 1..Len(conn.frames) /\ i \in 1..(Len(conn.frames) + 1)
        BY <3>1
      <3> QED
        BY <2>1, <3>1, <3>2, BeforeNat
    <2>3. Follows(script, Before(conn.base, conn.frames, i), conn.frames[i])
      BY <2>1, <2>2 DEF Continues
    <2> QED
      BY <2>2, <2>3 DEF Follows, Before, Hidden, Public
  <1> QED
    BY <1>1, SyncHolds, PTL

(***************************************************************************)
(* event-acknowledger.ts and ackEventConsumer: the durable cursor never    *)
(* passes a public event that the console did not handle to its end, in    *)
(* whatever order acknowledgements, claims, failures and restarts of the   *)
(* stream come.                                                            *)
(***************************************************************************)
THEOREM CursorFollowsHandlers == Spec => []AckedWasHandled
  <1>1. SyncInv => AckedWasHandled
    BY DEF SyncInv, CursorInv, Through, AckedWasHandled, Hidden, Public
  <1> QED
    BY <1>1, SyncHolds, PTL

=============================================================================
