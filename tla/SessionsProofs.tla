-------------------------- MODULE SessionsProofs --------------------------
(***************************************************************************)
(* Proofs about the two ends of a session, for any carriers, limits, lease *)
(* and renewal times, capacities, and any delay or cut by the relay.       *)
(*                                                                         *)
(* SessionLease.  Everything rests on the one challenge an end has under   *)
(* way (Exchange): it is a challenge on its way out or its grant on the    *)
(* way back, in one place only, with the number of the challenge issued    *)
(* last.  So a grant never meets an end that does not wait for it, the     *)
(* control queue holds at most one frame of each kind, and a grant that    *)
(* was sent before the other host locked belongs to a challenge issued     *)
(* before it locked: CutoffBound follows on the clock that was not         *)
(* disturbed (Cutoff).                                                     *)
(*                                                                         *)
(* Rendezvous.  Relay and connector share the wire of a control and the    *)
(* data connections.  What the relay may write on a wire is decided by the *)
(* phase of the control's handler: a session names a control only once it  *)
(* is installed (ControlsLive), which is after REGISTERED was written      *)
(* (WireOrder).  A data connection that the relay handed to a client was   *)
(* dialed by the worker of that client and never is a new one again        *)
(* (LegsOwned, WorkersDial).                                               *)
(***************************************************************************)
EXTENDS SessionLease, Rendezvous, SequenceTheorems, TLAPS

Time == [m : Int, w : Int]
Frame == [kind : {"none", "challenge", "grant", "data"}, nonce : Nat, span : Nat]
EndState == [err : {"none", "stopped", "protocol"}, initial : Time, lease : Time,
         issued : Time, next : Time, pending : BOOLEAN, nonce : Nat,
         peerNonce : Nat, grantSent : BOOLEAN, ready : BOOLEAN,
         control : Seq(Frame), writes : {0, 1}, writing : Frame,
         sent : BOOLEAN, holding : BOOLEAN, data : Nat]

TypeOK ==
    /\ now \in Nat /\ now >= Start
    /\ denier \in Ends \cup {"nobody"}
    /\ lockedAt \in Nat
    /\ disturbed \in [host : Ends \cup {"nobody"}, clock : {"none", "m", "w"}]
    /\ skew \in 0 .. MaxDisturbance
    /\ conn \in [Ends -> EndState]
    /\ frames \in [Ends -> Seq(Frame)]
    /\ app \in [Ends -> [at : {"wait", "dial", "hello", "open", "closed"}, left : Nat]]
    /\ lastUse \in Nat

-----------------------------------------------------------------------------
(* One end c with its stream s of frames on their way, and the other end o with *)
(* its stream t.  *)

Elems(s) == {s[i] : i \in DOMAIN s}
Has(s, k) == \E i \in DOMAIN s : s[i].kind = k
One(s, k) == \A i, j \in DOMAIN s : s[i].kind = k /\ s[j].kind = k => i = j

\* The frames of an end that the other has not read: queued, with the writer,
\* or on their way.
Stream(c, s) ==
    Elems(c.control) \cup Elems(s) \cup (IF c.sent THEN {} ELSE {c.writing})
Unsent(c, k) == c.writing.kind = k /\ ~c.sent
Unread(c, s, k) == Has(c.control, k) \/ Unsent(c, k) \/ Has(s, k)
Once(c, s, k) ==
    /\ One(c.control, k) /\ One(s, k)
    /\ ~(Has(c.control, k) /\ Unsent(c, k))
    /\ ~(Has(c.control, k) /\ Has(s, k))
    /\ ~(Unsent(c, k) /\ Has(s, k))

\* The loops of an end: what each holds, and that readiness is neither claimed
\* early nor noticed late.
LoopsHold(c, s, at) ==
    /\ \A f \in Elems(c.control) : f.kind \in {"challenge", "grant"}
    /\ \A f \in Elems(s) : f.kind # "none"
    /\ c.writing.kind = "none" => c.writing = NoFrame
    /\ c.sent => c.writing.kind = "grant"
    /\ c.ready <=> c.grantSent /\ c.lease # Zero
    /\ c.writes > 0 \/ c.writing.kind = "data" => c.ready
    /\ c.err = "none" /\ at \in {"dial", "hello", "open"} => c.ready
    /\ c.err = "none" => c.issued.m > 0
    /\ c.err = "none" /\ c.lease = Zero => c.pending

\* The challenge of c that is under way, or its grant, is in one place.
Places(c, s, o, t) ==
    /\ Once(c, s, "challenge") /\ Once(o, t, "grant")
    /\ ~(Unread(c, s, "challenge") /\ Unread(o, t, "grant"))

\* It has the number of the challenge c issued last, which o has not seen, and
\* the duration L of c's lease.
Asks(L, c, s, o) ==
    \A f \in Stream(c, s) : f.kind = "challenge" =>
      /\ f.span = L
      /\ c.err = "none" => c.pending /\ f.nonce = c.nonce
      /\ o.err = "none" => f.nonce > o.peerNonce
Answers(L, c, o, t) ==
    \A f \in Stream(o, t) : f.kind = "grant" =>
      /\ f.span <= L
      /\ c.err = "none" => c.pending /\ f.nonce = c.nonce

\* While both are there, c does not wait in vain.
Waits(c, s, o, t) ==
    c.err = "none" /\ o.err = "none" =>
      /\ o.peerNonce <= c.nonce
      /\ c.pending => Unread(c, s, "challenge") \/ Unread(o, t, "grant")

Exchange(L, c, s, o, t) ==
    Places(c, s, o, t) /\ Asks(L, c, s, o) /\ Answers(L, c, o, t) /\ Waits(c, s, o, t)

\* DATA on its way to c has the grant that allows it before it.
Behind(s) ==
    \A i \in DOMAIN s : s[i].kind = "data" => \E j \in 1 .. i - 1 : s[j].kind = "grant"
Granted(o) == o.grantSent \/ o.sent
DataHolds(c, o, t) ==
    /\ c.err = "none" /\ c.lease = Zero =>
         Behind(t) /\ (Granted(o) => Has(t, "grant"))
    /\ o.err = "none" /\ (c.lease # Zero \/ Has(t, "grant")) => Granted(o)

\* x is at most limit on every clock of e that was not disturbed.
Steady(e, clock) == disturbed # [host |-> e, clock |-> clock]
AtMost(e, x, limit) == (Steady(e, "m") => x.m <= limit) /\ (Steady(e, "w") => x.w <= limit)

\* The lease of e ends at most its duration after the challenge it answers, and
\* that challenge is no later than the lock of the other host.
CutHolds(e, c, o, t) ==
    /\ c.err = "none" => AtMost(e, c.issued, now)
    /\ c.lease # Zero => AtMost(e, c.lease, now + Lease[e])
    /\ denier = Peer(e) =>
         /\ c.lease # Zero => AtMost(e, c.lease, lockedAt + Lease[e])
         /\ c.err = "none" /\ Unread(o, t, "grant") => AtMost(e, c.issued, lockedAt)
LockHolds == lockedAt <= now /\ (denier = "nobody" => lastUse = 0) /\ CutoffBound

EndHolds(e) ==
    /\ LoopsHold(conn[e], frames[e], app[e].at)
    /\ Exchange(Lease[e], conn[e], frames[e], conn[Peer(e)], frames[Peer(e)])
    /\ DataHolds(conn[e], conn[Peer(e)], frames[Peer(e)])
    /\ CutHolds(e, conn[e], conn[Peer(e)], frames[Peer(e)])
IInv == TypeOK /\ LockHolds /\ NoProtocolFault /\ \A e \in Ends : EndHolds(e)
-----------------------------------------------------------------------------
(* Sequences of frames. *)

\* A frame is appended.
LEMMA Added ==
    ASSUME NEW s \in Seq(Frame), NEW f \in Frame
    PROVE  /\ Append(s, f) \in Seq(Frame)
           /\ Elems(Append(s, f)) = Elems(s) \cup {f}
           /\ \A k : Has(Append(s, f), k) <=> Has(s, k) \/ f.kind = k
           /\ \A k : One(s, k) /\ ~(Has(s, k) /\ f.kind = k) => One(Append(s, f), k)
           /\ Behind(s) /\ (f.kind = "data" => Has(s, "grant")) => Behind(Append(s, f))
  <1>1. Len(s) \in Nat /\ DOMAIN s = 1 .. Len(s)
    BY LenProperties
  <1>2. /\ Append(s, f) \in Seq(Frame) /\ DOMAIN Append(s, f) = 1 .. Len(s) + 1
        /\ \A i \in 1 .. Len(s) : Append(s, f)[i] = s[i]
        /\ Append(s, f)[Len(s) + 1] = f
    BY AppendProperties, LenProperties
  <1>3. 1 .. Len(s) + 1 = (1 .. Len(s)) \cup {Len(s) + 1}
    BY <1>1
  <1>4. Elems(Append(s, f)) = Elems(s) \cup {f}
    BY <1>1, <1>2, <1>3 DEF Elems
  <1>5. \A k : Has(Append(s, f), k) <=> Has(s, k) \/ f.kind = k
    BY <1>1, <1>2, <1>3 DEF Has
  <1>6. \A k : One(s, k) /\ ~(Has(s, k) /\ f.kind = k) => One(Append(s, f), k)
    BY <1>1, <1>2, <1>3 DEF Has, One
  <1>7. ASSUME Behind(s), f.kind = "data" => Has(s, "grant") PROVE Behind(Append(s, f))
    <2> SUFFICES ASSUME NEW i \in 1 .. Len(s) + 1, Append(s, f)[i].kind = "data"
                 PROVE  \E j \in 1 .. i - 1 : Append(s, f)[j].kind = "grant"
      BY <1>2 DEF Behind
    <2>1. CASE i \in 1 .. Len(s)
      <3>1. PICK j \in 1 .. i - 1 : s[j].kind = "grant"
        BY <1>1, <1>2, <1>7, <2>1 DEF Behind
      <3>2. j \in 1 .. Len(s)
        BY <1>1, <2>1
      <3> QED BY <1>2, <3>1, <3>2
    <2>2. CASE i = Len(s) + 1
      <3>1. PICK j \in 1 .. Len(s) : s[j].kind = "grant"
        BY <1>1, <1>2, <1>7, <2>2 DEF Has
      <3>2. j \in 1 .. i - 1
        BY <1>1, <2>2
      <3> QED BY <1>2, <3>1, <3>2
    <2> QED BY <1>3, <2>1, <2>2
  <1> QED BY <1>2, <1>4, <1>5, <1>6, <1>7

\* The first frame is taken off.
LEMMA HeadTaken ==
    ASSUME NEW s \in Seq(Frame), s # << >>
    PROVE  /\ Head(s) \in Frame /\ Tail(s) \in Seq(Frame)
           /\ Elems(s) = Elems(Tail(s)) \cup {Head(s)}
           /\ \A k : Has(s, k) <=> Has(Tail(s), k) \/ Head(s).kind = k
           /\ \A k : One(s, k) => One(Tail(s), k) /\ ~(Has(Tail(s), k) /\ Head(s).kind = k)
           /\ Behind(s) => Head(s).kind # "data"
           /\ Behind(s) /\ Head(s).kind # "grant" => Behind(Tail(s))
  <1>1. Len(s) \in Nat /\ Len(s) >= 1 /\ DOMAIN s = 1 .. Len(s) /\ \A i \in 1 .. Len(s) : s[i] \in Frame
    BY LenProperties, ElementOfSeq, EmptySeq
  <1>2. /\ Head(s) = s[1] /\ Tail(s) \in Seq(Frame) /\ DOMAIN Tail(s) = 1 .. Len(s) - 1
        /\ \A i \in 1 .. Len(s) - 1 : Tail(s)[i] = s[i + 1]
    BY HeadTailProperties, LenProperties
  <1>3. /\ 1 \in 1 .. Len(s)
        /\ \A i \in 1 .. Len(s) - 1 : i + 1 \in 1 .. Len(s) /\ i + 1 # 1
        /\ \A i \in 1 .. Len(s) : i = 1 \/ (i - 1 \in 1 .. Len(s) - 1 /\ (i - 1) + 1 = i)
        /\ \A i, j \in 1 .. Len(s) - 1 : i + 1 = j + 1 => i = j
    BY <1>1
  <1>4. \A i \in 1 .. Len(s) : s[i] = Head(s) \/ \E j \in 1 .. Len(s) - 1 : s[i] = Tail(s)[j]
    BY <1>2, <1>3
  <1>5. Elems(s) = Elems(Tail(s)) \cup {Head(s)}
    <2> DEFINE t == Tail(s)
               n == Len(s)
    <2>1. DOMAIN s = 1 .. n /\ DOMAIN t = 1 .. n - 1 /\ Head(s) = s[1] /\ 1 \in 1 .. n
      BY <1>1, <1>2, <1>3
    <2>2. \A i \in 1 .. n - 1 : \E j \in 1 .. n : t[i] = s[j]
      BY <1>2, <1>3
    <2>3. \A i \in 1 .. n : s[i] = Head(s) \/ \E j \in 1 .. n - 1 : s[i] = t[j]
      BY <1>4
    <2> HIDE DEF t, n
    <2>4. Elems(s) = Elems(t) \cup {Head(s)}
      <3>1. ASSUME NEW f \in Elems(s) PROVE f \in Elems(t) \cup {Head(s)}
        BY <2>1, <2>3 DEF Elems
      <3>2. ASSUME NEW f \in Elems(t) PROVE f \in Elems(s)
        BY <2>1, <2>2 DEF Elems
      <3>3. Head(s) \in Elems(s)
        BY <2>1 DEF Elems
      <3> QED BY <3>1, <3>2, <3>3
    <2> QED BY <2>4 DEF t
  <1>6. \A k : Has(s, k) <=> Has(Tail(s), k) \/ Head(s).kind = k
    <2>1. \A t, k : Has(t, k) <=> \E f \in Elems(t) : f.kind = k
      BY DEF Has, Elems
    <2> QED BY <1>5, <2>1
  <1>7. \A k : One(s, k) => One(Tail(s), k) /\ ~(Has(Tail(s), k) /\ Head(s).kind = k)
    BY <1>1, <1>2, <1>3 DEF One, Has
  <1>8. Behind(s) => Head(s).kind # "data"
    BY <1>1, <1>2, <1>3 DEF Behind
  <1>9. ASSUME Behind(s), Head(s).kind # "grant" PROVE Behind(Tail(s))
    <2> SUFFICES ASSUME NEW i \in 1 .. Len(s) - 1, Tail(s)[i].kind = "data"
                 PROVE  \E j \in 1 .. i - 1 : Tail(s)[j].kind = "grant"
      BY <1>2 DEF Behind
    <2>1. PICK j \in 1 .. i : s[j].kind = "grant"
      BY <1>1, <1>2, <1>3, <1>9 DEF Behind
    <2>2. j # 1
      BY <1>2, <1>9, <2>1
    <2>3. j - 1 \in 1 .. i - 1 /\ j - 1 \in 1 .. Len(s) - 1 /\ (j - 1) + 1 = j
      BY <1>1, <2>2
    <2> QED BY <1>2, <2>1, <2>3
  <1> QED BY <1>1, <1>2, <1>3, <1>5, <1>6, <1>7, <1>8, <1>9

\* No frames.
LEMMA NoFrames == << >> \in Seq(Frame) /\ Elems(<< >>) = {} /\ \A k : ~Has(<< >>, k) /\ One(<< >>, k)
  BY DEF Elems, Has, One

\* A queue with at most one challenge and one grant is short.
LEMMA ShortQueue ==
    ASSUME NEW s \in Seq(Frame), \A f \in Elems(s) : f.kind \in {"challenge", "grant"},
           One(s, "challenge"), One(s, "grant"), ~Has(s, "challenge") \/ ~Has(s, "grant")
    PROVE  Len(s) < 2
  <1>1. Len(s) \in Nat /\ DOMAIN s = 1 .. Len(s)
    BY LenProperties
  <1> SUFFICES ASSUME Len(s) >= 2 PROVE FALSE
    BY <1>1
  <1>2. 1 \in DOMAIN s /\ 2 \in DOMAIN s
    BY <1>1
  <1>3. s[1] \in Elems(s) /\ s[2] \in Elems(s)
    BY <1>2 DEF Elems
  <1> QED BY <1>2, <1>3 DEF One, Has
-----------------------------------------------------------------------------
(* Streams. *)

\* What is unread of a kind is among the frames.
LEMMA UnreadFrames ==
    ASSUME NEW c \in EndState, NEW s \in Seq(Frame), NEW f \in Stream(c, s)
    PROVE  Unread(c, s, f.kind)
  BY DEF Stream, Unread, Unsent, Elems, Has

\* No control frame came or went.
Reordered(c, s, d, u) ==
    /\ \A f \in Stream(d, u) : f \in Stream(c, s) \/ f.kind \notin {"challenge", "grant"}
    /\ \A k \in {"challenge", "grant"} :
         (Unread(d, u, k) <=> Unread(c, s, k)) /\ (Once(c, s, k) => Once(d, u, k))

\* Nothing moved.
LEMMA SameStream ==
    ASSUME NEW c \in EndState, NEW d \in EndState, NEW s \in Seq(Frame),
           d.control = c.control, d.writing = c.writing, d.sent = c.sent
    PROVE  Reordered(c, s, d, s)
  BY DEF Reordered, Stream, Unread, Unsent, Once

\* The writer takes the first queued control frame.
LEMMA TakeControl ==
    ASSUME NEW c \in EndState, NEW d \in EndState, NEW s \in Seq(Frame), c.writing = NoFrame, ~c.sent,
           c.control # << >>, d.control = Tail(c.control), d.writing = Head(c.control), ~d.sent
    PROVE  Reordered(c, s, d, s)
  <1>1. c.control \in Seq(Frame) /\ NoFrame.kind = "none"
    BY DEF EndState, NoFrame
  <1>2. /\ Elems(c.control) = Elems(d.control) \cup {d.writing}
        /\ \A k : Has(c.control, k) <=> Has(d.control, k) \/ d.writing.kind = k
        /\ \A k : One(c.control, k) => One(d.control, k) /\ ~(Has(d.control, k) /\ d.writing.kind = k)
    BY <1>1, HeadTaken
  <1>3. Stream(d, s) \subseteq Stream(c, s)
    BY <1>2 DEF Stream
  <1>4. \A k \in {"challenge", "grant"} : Unread(d, s, k) <=> Unread(c, s, k)
    BY <1>1, <1>2 DEF Unread, Unsent
  <1>5. ASSUME NEW k \in {"challenge", "grant"}, Once(c, s, k) PROVE Once(d, s, k)
    BY <1>1, <1>2, <1>5 DEF Once, Unsent
  <1> QED BY <1>3, <1>4, <1>5 DEF Reordered

\* The writer takes a DATA frame.
LEMMA TakeData ==
    ASSUME NEW c \in EndState, NEW d \in EndState, NEW s \in Seq(Frame), c.writing = NoFrame, ~c.sent,
           d.control = c.control, d.writing = DataFrame, ~d.sent
    PROVE  Reordered(c, s, d, s)
  <1>1. NoFrame.kind = "none" /\ DataFrame.kind = "data"
    BY DEF NoFrame, DataFrame
  <1> QED BY <1>1 DEF Reordered, Stream, Unread, Unsent, Once

\* The writer puts its frame on the way.
LEMMA PutFrame ==
    ASSUME NEW c \in EndState, NEW d \in EndState, NEW s \in Seq(Frame), ~c.sent,
           d.control = c.control, d.writing = NoFrame \/ d.sent
    PROVE  Reordered(c, s, d, Append(s, c.writing))
  <1>1. c.writing \in Frame /\ NoFrame.kind = "none"
    BY DEF EndState, NoFrame
  <1> DEFINE u == Append(s, c.writing)
  <1>2. /\ u \in Seq(Frame) /\ Elems(u) = Elems(s) \cup {c.writing}
        /\ \A k : Has(u, k) <=> Has(s, k) \/ c.writing.kind = k
        /\ \A k : One(s, k) /\ ~(Has(s, k) /\ c.writing.kind = k) => One(u, k)
    BY <1>1, Added
  <1> HIDE DEF u
  <1>3. \A f \in Stream(d, u) : f \in Stream(c, s) \/ f.kind = "none"
    BY <1>1, <1>2 DEF Stream
  <1>4. \A k \in {"challenge", "grant"} : Unread(d, u, k) <=> Unread(c, s, k)
    BY <1>1, <1>2 DEF Unread, Unsent
  <1>5. ASSUME NEW k \in {"challenge", "grant"}, Once(c, s, k) PROVE Once(d, u, k)
    BY <1>1, <1>2, <1>5 DEF Once, Unsent
  <1>6. Reordered(c, s, d, u)
    BY <1>3, <1>4, <1>5 DEF Reordered
  <1> QED BY <1>6 DEF u

\* A sent grant is recorded: the writer lets it go.
LEMMA RecordGrant ==
    ASSUME NEW c \in EndState, NEW d \in EndState, NEW s \in Seq(Frame), c.sent,
           d.control = c.control, d.writing = NoFrame, ~d.sent
    PROVE  Reordered(c, s, d, s)
  <1>1. NoFrame.kind = "none"
    BY DEF NoFrame
  <1> QED BY <1>1 DEF Reordered, Stream, Unread, Unsent, Once

\* The other end reads a DATA frame.
LEMMA ReadOff ==
    ASSUME NEW c \in EndState, NEW s \in Seq(Frame), s # << >>
    PROVE  /\ \A f \in Stream(c, Tail(s)) : f \in Stream(c, s)
           /\ Head(s) \in Stream(c, s) /\ Tail(s) \in Seq(Frame)
           /\ \A k : Head(s).kind # k => /\ Unread(c, Tail(s), k) <=> Unread(c, s, k)
                                         /\ Once(c, s, k) => Once(c, Tail(s), k)
           /\ \A k : Head(s).kind = k /\ Once(c, s, k) => ~Unread(c, Tail(s), k) /\ Once(c, Tail(s), k)
           /\ \A k : Unread(c, Tail(s), k) => Unread(c, s, k)
  <1> DEFINE u == Tail(s)
  <1>1. /\ u \in Seq(Frame) /\ Elems(s) = Elems(u) \cup {Head(s)}
        /\ \A k : Has(s, k) <=> Has(u, k) \/ Head(s).kind = k
        /\ \A k : One(s, k) => One(u, k) /\ ~(Has(u, k) /\ Head(s).kind = k)
    BY HeadTaken
  <1> HIDE DEF u
  <1>2. (\A f \in Stream(c, u) : f \in Stream(c, s)) /\ Head(s) \in Stream(c, s)
    BY <1>1 DEF Stream
  <1>3. \A k : Unread(c, u, k) => Unread(c, s, k)
    BY <1>1 DEF Unread
  <1>4. ASSUME NEW k, Head(s).kind # k
        PROVE  (Unread(c, u, k) <=> Unread(c, s, k)) /\ (Once(c, s, k) => Once(c, u, k))
    BY <1>1, <1>4 DEF Unread, Once
  <1>5. ASSUME NEW k, Head(s).kind = k, Once(c, s, k) PROVE ~Unread(c, u, k) /\ Once(c, u, k)
    BY <1>1, <1>5 DEF Unread, Once
  <1>6. /\ \A f \in Stream(c, u) : f \in Stream(c, s)
        /\ Head(s) \in Stream(c, s) /\ u \in Seq(Frame)
        /\ \A k : Head(s).kind # k => /\ Unread(c, u, k) <=> Unread(c, s, k)
                                      /\ Once(c, s, k) => Once(c, u, k)
        /\ \A k : Head(s).kind = k /\ Once(c, s, k) => ~Unread(c, u, k) /\ Once(c, u, k)
        /\ \A k : Unread(c, u, k) => Unread(c, s, k)
    BY <1>1, <1>2, <1>3, <1>4, <1>5
  <1> QED BY <1>6 DEF u
-----------------------------------------------------------------------------
(* The exchange of challenges and grants. *)

\* The counters by which an end talks.
SameTalk(c, d) ==
    d.err = c.err /\ d.pending = c.pending /\ d.nonce = c.nonce /\ d.peerNonce = c.peerNonce

\* Both exchanges are kept when no control frame comes or goes.
LEMMA ReorderKeeps ==
    ASSUME NEW c \in EndState, NEW d \in EndState, NEW o \in EndState, NEW s, NEW u, NEW t, NEW v, NEW L, NEW M,
           Reordered(c, s, d, u), Reordered(o, t, o, v), SameTalk(c, d),
           Exchange(L, c, s, o, t), Exchange(M, o, t, c, s)
    PROVE  Exchange(L, d, u, o, v) /\ Exchange(M, o, v, d, u)
  <1>1. Places(d, u, o, v) /\ Places(o, v, d, u)
    BY DEF Exchange, Places, Reordered
  <1>2. Asks(L, d, u, o) /\ Answers(L, d, o, v) /\ Asks(M, o, v, d) /\ Answers(M, o, d, u)
    BY DEF Exchange, Asks, Answers, Reordered, SameTalk
  <1>3. Waits(d, u, o, v) /\ Waits(o, v, d, u)
    BY DEF Exchange, Waits, Reordered, SameTalk
  <1> QED BY <1>1, <1>2, <1>3 DEF Exchange

\* An end stops: what it had queued is gone, what is on its way is not; it may
\* have read one more frame.
LEMMA StopExchange ==
    ASSUME NEW c \in EndState, NEW d \in EndState, NEW o \in EndState, NEW s \in Seq(Frame), NEW t \in Seq(Frame),
           NEW v \in Seq(Frame), NEW L, NEW M,
           v = t \/ (t # << >> /\ v = Tail(t)),
           d.err # "none", d.control = << >>, d.writing = NoFrame, ~d.sent,
           Exchange(L, c, s, o, t), Exchange(M, o, t, c, s)
    PROVE  Exchange(L, d, s, o, v) /\ Exchange(M, o, v, d, s)
  <1>1. /\ \A f \in Stream(d, s) : f \in Stream(c, s) \/ f.kind = "none"
        /\ \A k \in {"challenge", "grant"} : Unread(d, s, k) => Unread(c, s, k)
        /\ \A k \in {"challenge", "grant"} : Once(c, s, k) => Once(d, s, k)
    BY NoFrames DEF Stream, Unread, Unsent, Once, NoFrame
  <1>2. /\ \A f \in Stream(o, v) : f \in Stream(o, t)
        /\ \A k \in {"challenge", "grant"} : Unread(o, v, k) => Unread(o, t, k)
        /\ \A k \in {"challenge", "grant"} : Once(o, t, k) => Once(o, v, k)
    <2>1. CASE v = t
      BY <2>1
    <2>2. CASE t # << >> /\ v = Tail(t)
      <3>1. /\ \A f \in Stream(o, v) : f \in Stream(o, t)
            /\ \A k : Unread(o, v, k) => Unread(o, t, k)
            /\ \A k : Head(t).kind # k => (Once(o, t, k) => Once(o, v, k))
            /\ \A k : Head(t).kind = k /\ Once(o, t, k) => Once(o, v, k)
        BY <2>2, ReadOff
      <3> QED BY <3>1
    <2> QED BY <2>1, <2>2
  <1>3. Places(d, s, o, v) /\ Places(o, v, d, s)
    BY <1>1, <1>2 DEF Exchange, Places
  <1>4. Asks(L, d, s, o) /\ Answers(L, d, o, v) /\ Asks(M, o, v, d) /\ Answers(M, o, d, s)
    BY <1>1, <1>2 DEF Exchange, Asks, Answers
  <1>5. Waits(d, s, o, v) /\ Waits(o, v, d, s)
    BY DEF Waits
  <1> QED BY <1>3, <1>4, <1>5 DEF Exchange

\* beginChallenge: an end that waits for nothing asks again.
LEMMA IssueExchange ==
    ASSUME NEW c \in EndState, NEW d \in EndState, NEW o \in EndState, NEW s \in Seq(Frame), NEW t \in Seq(Frame),
           NEW L, NEW M, NEW f \in Frame,
           c.err = "none", ~c.pending, d.err = "none", d.pending, d.nonce = c.nonce + 1,
           d.peerNonce = c.peerNonce, d.control = Append(c.control, f), d.writing = c.writing,
           d.sent = c.sent, f.kind = "challenge", f.nonce = d.nonce, f.span = L,
           Exchange(L, c, s, o, t), Exchange(M, o, t, c, s)
    PROVE  Exchange(L, d, s, o, t) /\ Exchange(M, o, t, d, s)
  <1>1. c.control \in Seq(Frame) /\ c.nonce \in Nat /\ o.peerNonce \in Nat
    BY DEF EndState
  <1>2. /\ Elems(d.control) = Elems(c.control) \cup {f}
        /\ \A k : Has(d.control, k) <=> Has(c.control, k) \/ f.kind = k
        /\ \A k : One(c.control, k) /\ ~(Has(c.control, k) /\ f.kind = k) => One(d.control, k)
    BY <1>1, Added
  <1>3. ~Unread(c, s, "challenge") /\ ~Unread(o, t, "grant")
    <2>1. \A g \in Stream(c, s) : g.kind # "challenge"
      BY DEF Exchange, Asks
    <2>2. \A g \in Stream(o, t) : g.kind # "grant"
      BY DEF Exchange, Answers
    <2> QED BY <2>1, <2>2 DEF Unread, Unsent, Stream, Has, Elems
  <1>4. /\ \A g \in Stream(d, s) : g \in Stream(c, s) \/ g = f
        /\ Unread(d, s, "challenge") /\ Once(d, s, "challenge")
        /\ Unread(d, s, "grant") <=> Unread(c, s, "grant")
        /\ Once(c, s, "grant") => Once(d, s, "grant")
    <2>1. \A g \in Stream(d, s) : g \in Stream(c, s) \/ g = f
      BY <1>2 DEF Stream
    <2>2. Unread(d, s, "challenge") /\ (Unread(d, s, "grant") <=> Unread(c, s, "grant"))
      BY <1>2 DEF Unread, Unsent
    <2>3. Once(d, s, "challenge")
      BY <1>2, <1>3 DEF Once, Unread, Unsent, Exchange, Places
    <2>4. Once(c, s, "grant") => Once(d, s, "grant")
      BY <1>2 DEF Once, Unsent
    <2> QED BY <2>1, <2>2, <2>3, <2>4
  <1>5. Places(d, s, o, t) /\ Places(o, t, d, s)
    BY <1>3, <1>4 DEF Exchange, Places
  <1>6. Asks(L, d, s, o)
    <2> SUFFICES ASSUME NEW g \in Stream(d, s), g.kind = "challenge"
                 PROVE  /\ g.span = L /\ d.pending /\ g.nonce = d.nonce
                        /\ o.err = "none" => g.nonce > o.peerNonce
      BY DEF Asks
    <2>1. g = f
      BY <1>4 DEF Exchange, Asks
    <2>2. o.err = "none" => o.peerNonce <= c.nonce
      BY DEF Exchange, Waits
    <2> QED BY <1>1, <2>1, <2>2
  <1>7. Answers(L, d, o, t)
    BY DEF Exchange, Answers
  <1>8. Asks(M, o, t, d) /\ Answers(M, o, d, s)
    BY <1>4 DEF Exchange, Asks, Answers
  <1>9. Waits(d, s, o, t) /\ Waits(o, t, d, s)
    BY <1>1, <1>4 DEF Exchange, Waits
  <1> QED BY <1>5, <1>6, <1>7, <1>8, <1>9 DEF Exchange

\* receiveControl of a challenge: c reads it off t and queues the grant g.
LEMMA AnswerExchange ==
    ASSUME NEW c \in EndState, NEW d \in EndState, NEW o \in EndState, NEW s \in Seq(Frame), NEW t \in Seq(Frame),
           NEW L, NEW M \in Nat, NEW g \in Frame,
           t # << >>, Head(t).kind = "challenge", c.err = "none", d.err = "none",
           d.pending = c.pending, d.nonce = c.nonce, d.peerNonce = Head(t).nonce,
           d.control = Append(c.control, g), d.writing = c.writing, d.sent = c.sent,
           g.kind = "grant", g.nonce = Head(t).nonce, g.span <= Head(t).span,
           Exchange(L, c, s, o, t), Exchange(M, o, t, c, s)
    PROVE  Exchange(L, d, s, o, Tail(t)) /\ Exchange(M, o, Tail(t), d, s)
  <1> DEFINE v == Tail(t)
             f == Head(t)
  <1>1. c.control \in Seq(Frame) /\ o.nonce \in Nat /\ f \in Frame /\ f.nonce \in Nat
    BY HeadTaken DEF EndState, Frame
  <1>2. /\ Elems(d.control) = Elems(c.control) \cup {g}
        /\ \A k : Has(d.control, k) <=> Has(c.control, k) \/ g.kind = k
        /\ \A k : One(c.control, k) /\ ~(Has(c.control, k) /\ g.kind = k) => One(d.control, k)
    BY <1>1, Added
  <1>3. /\ \A h \in Stream(o, v) : h \in Stream(o, t)
        /\ f \in Stream(o, t) /\ v \in Seq(Frame)
        /\ Unread(o, v, "grant") <=> Unread(o, t, "grant")
        /\ Once(o, t, "grant") => Once(o, v, "grant")
        /\ ~Unread(o, v, "challenge") /\ Once(o, v, "challenge")
    <2>1. Once(o, t, "challenge")
      BY DEF Exchange, Places
    <2>2. /\ \A h \in Stream(o, v) : h \in Stream(o, t)
          /\ f \in Stream(o, t) /\ v \in Seq(Frame)
          /\ \A k : f.kind # k => /\ Unread(o, v, k) <=> Unread(o, t, k)
                                  /\ Once(o, t, k) => Once(o, v, k)
          /\ \A k : f.kind = k /\ Once(o, t, k) => ~Unread(o, v, k) /\ Once(o, v, k)
      BY ReadOff
    <2> QED BY <2>1, <2>2
  <1> HIDE DEF v, f
  <1>4. Unread(o, t, "challenge") /\ ~Unread(c, s, "grant")
    BY <1>3, UnreadFrames DEF Exchange, Places, f
  <1>5. /\ \A h \in Stream(d, s) : h \in Stream(c, s) \/ h = g
        /\ Unread(d, s, "grant") /\ Once(d, s, "grant")
        /\ Unread(d, s, "challenge") <=> Unread(c, s, "challenge")
        /\ Once(c, s, "challenge") => Once(d, s, "challenge")
    <2>1. \A h \in Stream(d, s) : h \in Stream(c, s) \/ h = g
      BY <1>2 DEF Stream
    <2>2. Unread(d, s, "grant") /\ (Unread(d, s, "challenge") <=> Unread(c, s, "challenge"))
      BY <1>2 DEF Unread, Unsent
    <2>3. Once(d, s, "grant")
      BY <1>2, <1>4 DEF Once, Unread, Unsent, Exchange, Places
    <2>4. Once(c, s, "challenge") => Once(d, s, "challenge")
      BY <1>2 DEF Once, Unsent
    <2> QED BY <2>1, <2>2, <2>3, <2>4
  <1>6. Places(d, s, o, v) /\ Places(o, v, d, s)
    BY <1>3, <1>5 DEF Exchange, Places
  <1>7. Asks(L, d, s, o) /\ Answers(L, d, o, v)
    BY <1>3, <1>5 DEF Exchange, Asks, Answers
  <1>8. Asks(M, o, v, d)
    BY <1>3, UnreadFrames DEF Asks
  <1>9. /\ f.span = M /\ (o.err = "none" => o.pending /\ f.nonce = o.nonce)
    BY <1>3 DEF Exchange, Asks, f
  <1>10. Answers(M, o, d, s)
    <2> SUFFICES ASSUME NEW h \in Stream(d, s), h.kind = "grant"
                 PROVE  h.span <= M /\ (o.err = "none" => o.pending /\ h.nonce = o.nonce)
      BY DEF Answers
    <2>1. h = g
      BY <1>4, <1>5, UnreadFrames
    <2> QED BY <1>9, <2>1 DEF f
  <1>11. Waits(d, s, o, v)
    BY <1>3, <1>5 DEF Exchange, Waits
  <1>12. Waits(o, v, d, s)
    BY <1>1, <1>5, <1>9 DEF Waits, f
  <1>13. Exchange(L, d, s, o, v) /\ Exchange(M, o, v, d, s)
    BY <1>6, <1>7, <1>8, <1>10, <1>11, <1>12 DEF Exchange
  <1> QED BY <1>13 DEF v

\* receiveControl of a grant: c waits for it, and then for nothing.
LEMMA GrantExchange ==
    ASSUME NEW c \in EndState, NEW d \in EndState, NEW o \in EndState, NEW s \in Seq(Frame), NEW t \in Seq(Frame),
           NEW L, NEW M, t # << >>, Head(t).kind = "grant", c.err = "none",
           d.err = "none", ~d.pending, d.nonce = c.nonce, d.peerNonce = c.peerNonce,
           d.control = c.control, d.writing = c.writing, d.sent = c.sent,
           Exchange(L, c, s, o, t), Exchange(M, o, t, c, s)
    PROVE  Exchange(L, d, s, o, Tail(t)) /\ Exchange(M, o, Tail(t), d, s)
  <1> DEFINE v == Tail(t)
  <1>1. /\ \A h \in Stream(o, v) : h \in Stream(o, t)
        /\ Head(t) \in Stream(o, t) /\ v \in Seq(Frame)
        /\ Unread(o, v, "challenge") <=> Unread(o, t, "challenge")
        /\ Once(o, t, "challenge") => Once(o, v, "challenge")
        /\ ~Unread(o, v, "grant") /\ Once(o, v, "grant")
    <2>1. Once(o, t, "grant")
      BY DEF Exchange, Places
    <2>2. /\ \A h \in Stream(o, v) : h \in Stream(o, t)
          /\ Head(t) \in Stream(o, t) /\ v \in Seq(Frame)
          /\ \A k : Head(t).kind # k => /\ Unread(o, v, k) <=> Unread(o, t, k)
                                        /\ Once(o, t, k) => Once(o, v, k)
          /\ \A k : Head(t).kind = k /\ Once(o, t, k) => ~Unread(o, v, k) /\ Once(o, v, k)
      BY ReadOff
    <2> QED BY <2>1, <2>2
  <1> HIDE DEF v
  <1>2. ~Unread(c, s, "challenge")
    BY <1>1, UnreadFrames DEF Exchange, Places
  <1>3. /\ Stream(d, s) = Stream(c, s) /\ \A k : Unread(d, s, k) <=> Unread(c, s, k)
        /\ \A k : Once(d, s, k) <=> Once(c, s, k)
    BY DEF Stream, Unread, Unsent, Once
  <1>4. Places(d, s, o, v) /\ Places(o, v, d, s)
    BY <1>1, <1>3 DEF Exchange, Places
  <1>5. Asks(L, d, s, o) /\ Answers(L, d, o, v)
    BY <1>1, <1>2, <1>3, UnreadFrames DEF Asks, Answers
  <1>6. Asks(M, o, v, d) /\ Answers(M, o, d, s)
    BY <1>1, <1>3 DEF Exchange, Asks, Answers
  <1>7. Waits(d, s, o, v) /\ Waits(o, v, d, s)
    BY <1>1, <1>3 DEF Exchange, Waits
  <1>8. Exchange(L, d, s, o, v) /\ Exchange(M, o, v, d, s)
    BY <1>4, <1>5, <1>6, <1>7 DEF Exchange
  <1> QED BY <1>8 DEF v
-----------------------------------------------------------------------------
(* Clocks. *)

\* The ends.
LEMMA Two == ASSUME NEW e \in Ends
             PROVE  Peer(e) \in Ends /\ Peer(Peer(e)) = e /\ Peer(e) # e /\ Ends = {e, Peer(e)}
                    /\ \A q \in Ends : q = e \/ q = Peer(e)
  BY DEF Ends, Peer

\* A clock reads a time after the start, and the real time unless disturbed.
LEMMA ClockFacts ==
    ASSUME TypeOK, NEW e \in Ends
    PROVE  /\ Clock(e) \in Time /\ Clock(e).m > 0 /\ AtMost(e, Clock(e), now)
           /\ Steady(e, "m") => Clock(e).m = now
           /\ Steady(e, "w") => Clock(e).w = now
           /\ Steady(e, "m") \/ Steady(e, "w")
  <1>1. now \in Nat /\ skew \in Nat /\ skew <= MaxDisturbance /\ now >= 1 + MaxDisturbance /\ MaxDisturbance \in Nat
    BY LeaseBounds DEF TypeOK, Start
  <1>2. Steady(e, "m") \/ Steady(e, "w")
    BY DEF Steady
  <1>3. Clock(e).m \in Int /\ Clock(e).m > 0 /\ (Steady(e, "m") => Clock(e).m = now)
    BY <1>1 DEF Clock, Steady
  <1>4. Clock(e).w \in Int /\ (Steady(e, "w") => Clock(e).w = now)
    BY <1>1 DEF Clock, Steady
  <1>5. Clock(e) \in Time
    BY <1>1 DEF Clock, Time
  <1> QED BY <1>1, <1>2, <1>3, <1>4, <1>5 DEF AtMost

\* Adding to a time.
LEMMA PlusFacts ==
    ASSUME NEW x \in Time, NEW n \in Nat
    PROVE  Plus(x, n) \in Time /\ Plus(x, n).m = x.m + n /\ Plus(x, n).w = x.w + n
           /\ (x.m > 0 => Plus(x, n) # Zero)
  BY DEF Plus, Time, Zero
-----------------------------------------------------------------------------
(* Steps of one end. *)

\* Only the connection of e changes; it puts on its own stream, and reads off
\* the other.
Touches(e) == conn' \in [Ends -> EndState] /\ conn'[Peer(e)] = conn[Peer(e)]
World == << now, denier, lockedAt, disturbed, skew >>
ReadsOne(e) ==
    \/ frames'[Peer(e)] = frames[Peer(e)]
    \/ frames[Peer(e)] # << >> /\ frames'[Peer(e)] = Tail(frames[Peer(e)])

\* A step of e keeps the invariant if it keeps each part that speaks of e.
LEMMA Assembles ==
    ASSUME IInv, NEW e \in Ends, Touches(e), frames' \in [Ends -> Seq(Frame)], ReadsOne(e),
           app' \in [Ends -> [at : {"wait", "dial", "hello", "open", "closed"}, left : Nat]],
           app'[Peer(e)] = app[Peer(e)], UNCHANGED World, lastUse' \in Nat, LockHolds',
           conn'[e].err # "protocol", LoopsHold(conn'[e], frames'[e], app'[e].at),
           Exchange(Lease[e], conn'[e], frames'[e], conn[Peer(e)], frames'[Peer(e)]),
           Exchange(Lease[Peer(e)], conn[Peer(e)], frames'[Peer(e)], conn'[e], frames'[e]),
           DataHolds(conn'[e], conn[Peer(e)], frames'[Peer(e)]),
           DataHolds(conn[Peer(e)], conn'[e], frames'[e]),
           CutHolds(e, conn'[e], conn[Peer(e)], frames'[Peer(e)]),
           CutHolds(Peer(e), conn[Peer(e)], conn'[e], frames'[e])
    PROVE  IInv'
  <1> DEFINE p == Peer(e)
  <1>1. p \in Ends /\ Peer(p) = e /\ p # e /\ \A q \in Ends : q = e \/ q = p
    BY Two
  <1>2. UNCHANGED << now, denier, lockedAt, disturbed, skew >> /\ conn'[p] = conn[p]
    BY DEF World, Touches
  <1>3. TypeOK'
    BY <1>2 DEF IInv, TypeOK, Touches
  <1>4. LoopsHold(conn[p], frames'[p], app[p].at)
    <2>1. LoopsHold(conn[p], frames[p], app[p].at) /\ frames[p] \in Seq(Frame)
      BY <1>1 DEF IInv, EndHolds, TypeOK
    <2>2. \A f \in Elems(frames'[p]) : f \in Elems(frames[p])
      BY <2>1, HeadTaken DEF ReadsOne
    <2> QED BY <2>1, <2>2 DEF LoopsHold
  <1>5. \A q, c, o, t : CutHolds(q, c, o, t)' <=> CutHolds(q, c', o', t')
    BY <1>2 DEF CutHolds, AtMost, Steady
  <1>6. EndHolds(e)' /\ EndHolds(p)'
    <2>1. EndHolds(e)'
      BY <1>1, <1>2, <1>5 DEF EndHolds
    <2>2. EndHolds(p)'
      BY <1>1, <1>2, <1>4, <1>5 DEF EndHolds
    <2> QED BY <2>1, <2>2
  <1>7. NoProtocolFault'
    BY <1>1, <1>2 DEF IInv, NoProtocolFault
  <1> HIDE DEF p
  <1>8. \A q \in Ends : EndHolds(q)'
    BY <1>1, <1>6
  <1> QED BY <1>3, <1>7, <1>8 DEF IInv
\* The cutoff of e does not change when its lease and its challenge do not.
LEMMA CutSame ==
    ASSUME IInv, NEW e \in Ends, NEW d \in EndState, NEW v \in Seq(Frame),
           d.err = "none" => conn[e].err = "none" /\ d.issued = conn[e].issued,
           d.lease = Zero \/ d.lease = conn[e].lease,
           Unread(conn[Peer(e)], v, "grant") => Unread(conn[Peer(e)], frames[Peer(e)], "grant")
    PROVE  CutHolds(e, d, conn[Peer(e)], v)
  <1>1. CutHolds(e, conn[e], conn[Peer(e)], frames[Peer(e)])
    BY DEF IInv, EndHolds
  <1> QED BY <1>1 DEF CutHolds

\* Nor the cutoff of its peer, unless a locked host answers a challenge.
LEMMA CutOther ==
    ASSUME IInv, NEW e \in Ends, NEW d \in EndState, NEW u \in Seq(Frame),
           denier = e /\ Unread(d, u, "grant") => Unread(conn[e], frames[e], "grant")
    PROVE  CutHolds(Peer(e), conn[Peer(e)], d, u)
  <1>1. Peer(e) \in Ends /\ Peer(Peer(e)) = e
    BY Two
  <1>2. CutHolds(Peer(e), conn[Peer(e)], conn[e], frames[e])
    BY <1>1 DEF IInv, EndHolds
  <1> QED BY <1>1, <1>2 DEF CutHolds

\* What the invariant says of an end, its peer and their streams.
LEMMA Says ==
    ASSUME IInv, NEW e \in Ends
    PROVE  /\ conn[e] \in EndState /\ conn[Peer(e)] \in EndState
           /\ frames[e] \in Seq(Frame) /\ frames[Peer(e)] \in Seq(Frame)
           /\ conn[e].err # "protocol"
           /\ LoopsHold(conn[e], frames[e], app[e].at)
           /\ Exchange(Lease[e], conn[e], frames[e], conn[Peer(e)], frames[Peer(e)])
           /\ Exchange(Lease[Peer(e)], conn[Peer(e)], frames[Peer(e)], conn[e], frames[e])
           /\ DataHolds(conn[e], conn[Peer(e)], frames[Peer(e)])
           /\ DataHolds(conn[Peer(e)], conn[e], frames[e])
           /\ Lease[e] \in Nat /\ Lease[Peer(e)] \in Nat
  <1>1. Peer(e) \in Ends /\ Peer(Peer(e)) = e
    BY Two
  <1>2. EndHolds(e) /\ EndHolds(Peer(e))
    BY <1>1 DEF IInv
  <1>3. /\ conn[e] \in EndState /\ conn[Peer(e)] \in EndState
        /\ frames[e] \in Seq(Frame) /\ frames[Peer(e)] \in Seq(Frame)
        /\ conn[e].err # "protocol" /\ Lease[e] \in Nat /\ Lease[Peer(e)] \in Nat
    BY <1>1, LeaseBounds DEF IInv, TypeOK, NoProtocolFault
  <1> QED BY <1>1, <1>2, <1>3 DEF EndHolds

\* A stopped connection holds nothing.
LEMMA Stopped ==
    ASSUME NEW why \in {"stopped", "protocol"}, NEW d, d = [NewConn EXCEPT !.err = why]
    PROVE  /\ d \in EndState /\ d.err = why /\ d.control = << >> /\ d.writing = NoFrame /\ ~d.sent
           /\ d.lease = Zero /\ ~d.grantSent /\ ~d.ready /\ d.writes = 0
  <1>1. Zero \in Time /\ NoFrame \in Frame /\ << >> \in Seq(Frame)
    BY DEF Time, Zero, Frame, NoFrame
  <1>2. NewConn \in EndState
    BY <1>1 DEF NewConn, EndState
  <1>3. d \in EndState
    BY <1>2 DEF EndState
  <1> QED BY <1>3 DEF NewConn

\* An end stops, perhaps at a frame it has read.
LEMMA StopKeeps ==
    ASSUME IInv, NEW e \in Ends, Stop(e, "stopped"), UNCHANGED World, UNCHANGED << app, lastUse >>,
           frames' = frames \/ (frames[Peer(e)] # << >>
                                /\ frames' = [frames EXCEPT ![Peer(e)] = Tail(@)])
    PROVE  IInv'
  <1> DEFINE p == Peer(e)
             c == conn[e]
             o == conn[p]
             s == frames[e]
             t == frames[p]
             d == conn'[e]
             v == frames'[p]
  <1>1. p \in Ends /\ Peer(p) = e /\ p # e
    BY Two
  <1>2. TypeOK
    BY DEF IInv
  <1>3. d = [NewConn EXCEPT !.err = "stopped"] /\ conn'[p] = o
    BY <1>1, <1>2 DEF Stop, TypeOK
  <1>4. /\ d \in EndState /\ d.err = "stopped" /\ d.control = << >> /\ d.writing = NoFrame /\ ~d.sent
        /\ d.lease = Zero /\ ~d.grantSent /\ ~d.ready /\ d.writes = 0
    BY <1>3, Stopped
  <1>5. Touches(e)
    <2>1. [NewConn EXCEPT !.err = "stopped"] \in EndState
      BY <1>3, <1>4
    <2> QED BY <1>2, <1>3, <2>1 DEF Stop, TypeOK, Touches
  <1>6. /\ c \in EndState /\ o \in EndState /\ s \in Seq(Frame) /\ t \in Seq(Frame)
        /\ LoopsHold(c, s, app[e].at) /\ Exchange(Lease[e], c, s, o, t) /\ Exchange(Lease[p], o, t, c, s)
        /\ DataHolds(c, o, t) /\ DataHolds(o, c, s)
    BY Says
  <1>7. /\ frames' \in [Ends -> Seq(Frame)] /\ frames'[e] = s /\ v \in Seq(Frame)
        /\ v = t \/ (t # << >> /\ v = Tail(t))
    <2>1. frames \in [Ends -> Seq(Frame)]
      BY <1>2 DEF TypeOK
    <2>2. CASE frames' = frames
      BY <2>1, <2>2, <1>1
    <2>3. CASE t # << >> /\ frames' = [frames EXCEPT ![p] = Tail(@)]
      <3>1. Tail(t) \in Seq(Frame)
        BY <1>6, <2>3, HeadTaken
      <3> QED BY <1>1, <2>1, <2>3, <3>1
    <2> QED BY <2>2, <2>3
  <1>8. LockHolds' /\ lastUse' \in Nat
    BY <1>2 DEF IInv, LockHolds, CutoffBound, World, TypeOK
  <1>9. app' \in [Ends -> [at : {"wait", "dial", "hello", "open", "closed"}, left : Nat]] /\ app' = app
    BY <1>2 DEF TypeOK
  <1>10. \A k : Has(v, k) => Has(t, k)
    BY <1>6, <1>7, HeadTaken
  <1> HIDE DEF d, v, c, o, s, t
  <1>11. LoopsHold(d, s, app[e].at)
    <2>1. NoFrame.kind = "none"
      BY DEF NoFrame
    <2> QED BY <1>4, <1>6, <2>1, NoFrames DEF LoopsHold
  <1>12. Exchange(Lease[e], d, s, o, v) /\ Exchange(Lease[p], o, v, d, s)
    BY <1>4, <1>6, <1>7, StopExchange
  <1>13. DataHolds(d, o, v)
    BY <1>4, <1>6, <1>10 DEF DataHolds
  <1>14. DataHolds(o, d, s)
    BY <1>4, <1>6 DEF DataHolds, Granted
  <1>15. CutHolds(e, d, o, v)
    <2>1. Unread(o, v, "grant") => Unread(o, t, "grant")
      BY <1>10 DEF Unread
    <2> QED BY <1>4, <1>7, <2>1, CutSame DEF o, t
  <1>16. CutHolds(p, o, d, s)
    <2>1. Unread(d, s, "grant") => Unread(c, s, "grant")
      BY <1>4, NoFrames DEF Unread, Unsent, NoFrame
    <2> QED BY <1>4, <1>6, <2>1, CutOther DEF o, c, s
  <1> QED
    BY <1>4, <1>5, <1>7, <1>8, <1>9, <1>11, <1>12, <1>13, <1>14, <1>15, <1>16, Assembles
    DEF ReadsOne, d, v, o, s, t

\* A step that moves no control frame and leaves the lease and the talk alone.
LEMMA QuietKeeps ==
    ASSUME IInv, NEW e \in Ends, Touches(e), UNCHANGED World, UNCHANGED frames, LockHolds',
           app' \in [Ends -> [at : {"wait", "dial", "hello", "open", "closed"}, left : Nat]],
           app'[Peer(e)] = app[Peer(e)], lastUse' \in Nat,
           SameTalk(conn[e], conn'[e]), conn'[e].lease = conn[e].lease,
           conn'[e].issued = conn[e].issued, Granted(conn'[e]) <=> Granted(conn[e]),
           Reordered(conn[e], frames[e], conn'[e], frames[e]),
           LoopsHold(conn'[e], frames[e], app'[e].at)
    PROVE  IInv'
  <1> DEFINE p == Peer(e)
             c == conn[e]
             o == conn[p]
             s == frames[e]
             t == frames[p]
             d == conn'[e]
  <1>1. p \in Ends /\ Peer(p) = e /\ p # e
    BY Two
  <1>2. /\ c \in EndState /\ o \in EndState /\ s \in Seq(Frame) /\ t \in Seq(Frame) /\ c.err # "protocol"
        /\ Exchange(Lease[e], c, s, o, t) /\ Exchange(Lease[p], o, t, c, s)
        /\ DataHolds(c, o, t) /\ DataHolds(o, c, s)
    BY Says
  <1>3. d \in EndState /\ frames' \in [Ends -> Seq(Frame)]
    BY DEF IInv, TypeOK, Touches
  <1>4. SameTalk(c, d) /\ d.lease = c.lease /\ d.issued = c.issued /\ (Granted(d) <=> Granted(c))
        /\ Reordered(c, s, d, s)
    OBVIOUS
  <1>5. frames'[e] = s /\ frames'[p] = t
    OBVIOUS
  <1> HIDE DEF c, o, s, t, d
  <1>6. Exchange(Lease[e], d, s, o, t) /\ Exchange(Lease[p], o, t, d, s)
    BY <1>2, <1>3, <1>4, SameStream, ReorderKeeps
  <1>7. DataHolds(d, o, t) /\ DataHolds(o, d, s)
    BY <1>2, <1>4 DEF DataHolds, SameTalk
  <1>8. CutHolds(e, d, o, t)
    BY <1>2, <1>3, <1>4, CutSame DEF SameTalk, c, o, t
  <1>9. CutHolds(p, o, d, s)
    <2>1. Unread(d, s, "grant") => Unread(c, s, "grant")
      BY <1>4 DEF Reordered
    <2> QED BY <1>2, <1>3, <2>1, CutOther DEF o, c, s
  <1>10. d.err # "protocol"
    BY <1>2, <1>4 DEF SameTalk
  <1> QED
    BY <1>3, <1>5, <1>6, <1>7, <1>8, <1>9, <1>10, Assembles DEF ReadsOne, d, o, s, t
-----------------------------------------------------------------------------
(* The watcher and the writer. *)

\* The cutoff bound speaks of nothing these steps change.
LEMMA LockSame == ASSUME IInv, UNCHANGED World, UNCHANGED lastUse PROVE LockHolds' /\ lastUse' \in Nat
  BY DEF IInv, TypeOK, LockHolds, CutoffBound, World

\* One connection is replaced.
LEMMA SetConn ==
    ASSUME IInv, NEW e \in Ends, NEW d \in EndState, conn' = [conn EXCEPT ![e] = d]
    PROVE  Touches(e) /\ conn'[e] = d
  BY Two DEF IInv, TypeOK, Touches

\* The session code stays where it is.
LEMMA AppSame ==
    ASSUME IInv, NEW e \in Ends, UNCHANGED app
    PROVE  /\ app' \in [Ends -> [at : {"wait", "dial", "hello", "open", "closed"}, left : Nat]]
           /\ app'[e] = app[e] /\ app'[Peer(e)] = app[Peer(e)]
  BY DEF IInv, TypeOK

\* An end that waits for nothing has nothing under way.
LEMMA Idle ==
    ASSUME NEW L, NEW c \in EndState, NEW s \in Seq(Frame), NEW o \in EndState, NEW t \in Seq(Frame),
           c.err = "none", ~c.pending, Exchange(L, c, s, o, t)
    PROVE  ~Unread(c, s, "challenge") /\ ~Unread(o, t, "grant")
  <1>1. \A g \in Stream(c, s) : g.kind # "challenge"
    BY DEF Exchange, Asks
  <1>2. \A g \in Stream(o, t) : g.kind # "grant"
    BY DEF Exchange, Answers
  <1> QED BY <1>1, <1>2 DEF Unread, Unsent, Stream, Has, Elems

\* beginChallenge keeps the invariant, and finds room.
LEMMA WatchRenewsKeeps == ASSUME IInv, NEW e \in Ends, WatchRenews(e) PROVE IInv'
  <1> DEFINE p == Peer(e)
             c == conn[e]
             o == conn[p]
             s == frames[e]
             t == frames[p]
             d == Issue(e, c)
             f == Challenge(e, c.nonce + 1)
  <1>1. /\ c \in EndState /\ o \in EndState /\ s \in Seq(Frame) /\ t \in Seq(Frame)
        /\ LoopsHold(c, s, app[e].at) /\ Exchange(Lease[e], c, s, o, t) /\ Exchange(Lease[p], o, t, c, s)
        /\ DataHolds(c, o, t) /\ DataHolds(o, c, s) /\ Lease[e] \in Nat
    BY Says
  <1>2. c.err = "none" /\ ~c.pending /\ UNCHANGED World /\ UNCHANGED << frames, app, lastUse >>
    BY DEF WatchRenews, Live, RenewDue, World
  <1>3. ~Unread(c, s, "challenge") /\ ~Unread(o, t, "grant")
    BY <1>1, <1>2, Idle
  <1>4. c.control \in Seq(Frame) /\ c.nonce \in Nat /\ c.nonce + 1 \in Nat /\ Renew[e] \in Nat
    <2>1. Renew[e] \in Nat
      BY LeaseBounds
    <2> QED BY <1>1, <2>1 DEF EndState
  <1>5. Len(c.control) < ControlCapacity
    <2>1. Len(c.control) < 2
      <3>1. One(c.control, "challenge") /\ One(c.control, "grant") /\ ~Has(c.control, "challenge")
        BY <1>1, <1>3 DEF Exchange, Places, Once, Unread
      <3>2. \A g \in Elems(c.control) : g.kind \in {"challenge", "grant"}
        BY <1>1 DEF LoopsHold
      <3> QED BY <1>4, <3>1, <3>2, ShortQueue
    <2>2. Len(c.control) \in Nat /\ ControlCapacity \in Nat /\ ControlCapacity >= 2
      BY <1>4, LenProperties, LeaseBounds
    <2> QED BY <2>1, <2>2
  <1>6. conn' = [conn EXCEPT ![e] = d]
    BY <1>5 DEF WatchRenews
  <1>7. f \in Frame /\ f.kind = "challenge" /\ f.nonce = c.nonce + 1 /\ f.span = Lease[e]
    BY <1>1, <1>4 DEF Challenge, Frame
  <1>8. /\ Clock(e) \in Time /\ Clock(e).m > 0 /\ AtMost(e, Clock(e), now)
        /\ Plus(Clock(e), Renew[e]) \in Time
    BY <1>4, ClockFacts, PlusFacts DEF IInv
  <1>9. Append(c.control, f) \in Seq(Frame)
    BY <1>4, <1>7, Added
  <1>10. d = [c EXCEPT !.pending = TRUE, !.nonce = c.nonce + 1, !.issued = Clock(e),
                       !.next = Plus(Clock(e), Renew[e]), !.control = Append(c.control, f)]
    BY <1>1 DEF Issue, EndState
  <1> HIDE DEF d, f
  <1>11. d \in EndState
    BY <1>1, <1>4, <1>8, <1>9, <1>10 DEF EndState
  <1>12. /\ d.err = "none" /\ d.pending /\ d.nonce = c.nonce + 1 /\ d.issued = Clock(e)
         /\ d.peerNonce = c.peerNonce /\ d.control = Append(c.control, f) /\ d.writing = c.writing
         /\ d.sent = c.sent /\ d.lease = c.lease /\ d.grantSent = c.grantSent /\ d.ready = c.ready
         /\ d.writes = c.writes
    BY <1>1, <1>2, <1>10, <1>11 DEF EndState
  <1>13. Touches(e) /\ conn'[e] = d
    BY <1>6, <1>11, SetConn
  <1>14. Exchange(Lease[e], d, s, o, t) /\ Exchange(Lease[p], o, t, d, s)
    BY <1>1, <1>2, <1>7, <1>11, <1>12, IssueExchange
  <1>15. LoopsHold(d, s, app[e].at)
    <2>1. Elems(d.control) = Elems(c.control) \cup {f}
      BY <1>4, <1>7, <1>12, Added
    <2> QED BY <1>1, <1>2, <1>7, <1>8, <1>12, <2>1 DEF LoopsHold
  <1>16. DataHolds(d, o, t) /\ DataHolds(o, d, s)
    BY <1>1, <1>2, <1>12 DEF DataHolds, Granted
  <1>17. CutHolds(e, d, o, t)
    <2>1. CutHolds(e, c, o, t)
      BY DEF IInv, EndHolds
    <2> QED BY <1>3, <1>8, <1>12, <2>1 DEF CutHolds
  <1>18. CutHolds(p, o, d, s)
    <2>1. Unread(d, s, "grant") => Unread(c, s, "grant")
      <3>1. Has(d.control, "grant") => Has(c.control, "grant")
        BY <1>4, <1>7, <1>12, Added
      <3> QED BY <1>12, <3>1 DEF Unread, Unsent
    <2> QED BY <1>1, <1>11, <2>1, CutOther
  <1>19. /\ frames' \in [Ends -> Seq(Frame)] /\ frames'[e] = s /\ frames'[p] = t
    BY <1>2 DEF IInv, TypeOK
  <1> QED
    BY <1>2, <1>12, <1>13, <1>14, <1>15, <1>16, <1>17, <1>18, <1>19, AppSame, LockSame, Assembles
    DEF ReadsOne

\* The writer takes a control, or DATA, which a ready end has been granted.
LEMMA WriterTakesKeeps == ASSUME IInv, NEW e \in Ends, WriterTakes(e) PROVE IInv'
  <1> DEFINE c == conn[e]
             s == frames[e]
  <1>1. c \in EndState /\ s \in Seq(Frame) /\ LoopsHold(c, s, app[e].at)
    BY Says
  <1>2. /\ c.err = "none" /\ c.writing = NoFrame /\ ~c.sent
        /\ UNCHANGED World /\ UNCHANGED frames /\ UNCHANGED << app, lastUse >>
    BY <1>1 DEF WriterTakes, World, LoopsHold, NoFrame
  <1>3. PICK f \in Takeable(e) :
          IF ~WriterMay(e, f)
          THEN Stop(e, IF f.kind = "data" /\ Permitted(e) /\ Live(e) THEN "protocol" ELSE "stopped")
          ELSE conn' = [conn EXCEPT ![e].writing = f,
                                    ![e].control = IF f.kind = "data" THEN @ ELSE Tail(@)]
    BY DEF WriterTakes
  <1>4. (c.control # << >> /\ f = Head(c.control)) \/ (c.writes > 0 /\ f = DataFrame)
    BY <1>1 DEF Takeable, EndState
  <1>5. c.control \in Seq(Frame) /\ DataFrame \in Frame /\ DataFrame.kind = "data" /\ NoFrame.kind = "none"
    BY <1>1 DEF EndState, DataFrame, NoFrame, Frame
  <1>6. /\ f \in Frame
        /\ c.control # << >> /\ f = Head(c.control) =>
             f \in Elems(c.control) /\ f.kind \in {"challenge", "grant"}
    BY <1>1, <1>4, <1>5, HeadTaken DEF LoopsHold
  <1>7. CASE ~WriterMay(e, f)
    <2>1. ~(f.kind = "data" /\ Permitted(e) /\ Live(e))
      <3> SUFFICES ASSUME f.kind = "data", Permitted(e), Live(e) PROVE Authorized(e)
        BY <1>7 DEF WriterMay
      <3>1. c.writes > 0
        BY <1>4, <1>6
      <3> QED BY <1>1, <3>1 DEF Authorized, LoopsHold
    <2> QED BY <1>2, <1>3, <1>7, <2>1, StopKeeps
  <1>8. CASE WriterMay(e, f)
    <2> DEFINE new == IF f.kind = "data" THEN c.control ELSE Tail(c.control)
               d == [c EXCEPT !.writing = f, !.control = new]
    <2>1. new \in Seq(Frame)
      BY <1>4, <1>5, <1>6, HeadTaken
    <2>2. conn' = [conn EXCEPT ![e] = d]
      BY <1>1, <1>3, <1>8 DEF IInv, TypeOK, EndState
    <2> HIDE DEF new
    <2>3. d \in EndState
      BY <1>1, <1>6, <2>1 DEF EndState
    <2>4. /\ d.err = c.err /\ d.pending = c.pending /\ d.nonce = c.nonce /\ d.issued = c.issued
          /\ d.peerNonce = c.peerNonce /\ d.control = new /\ d.writing = f
          /\ d.sent = c.sent /\ d.lease = c.lease /\ d.grantSent = c.grantSent /\ d.ready = c.ready
          /\ d.writes = c.writes
      BY <1>1, <2>1 DEF EndState
    <2> HIDE DEF d
    <2>5. Touches(e) /\ conn'[e] = d
      BY <2>2, <2>3, SetConn
    <2>6. Reordered(c, s, d, s)
      <3>1. CASE c.control # << >> /\ f = Head(c.control)
        BY <1>1, <1>2, <1>6, <2>3, <2>4, <3>1, TakeControl DEF new
      <3>2. CASE c.writes > 0 /\ f = DataFrame
        BY <1>1, <1>2, <1>5, <2>3, <2>4, <3>2, TakeData DEF new
      <3> QED BY <1>4, <3>1, <3>2
    <2>7. LoopsHold(d, s, app[e].at)
      <3>1. \A g \in Elems(new) : g \in Elems(c.control)
        BY <1>4, <1>5, <1>6, HeadTaken DEF new
      <3>2. f.kind # "none" /\ (f.kind = "data" => c.ready)
        BY <1>1, <1>4, <1>5, <1>6 DEF LoopsHold
      <3> QED BY <1>1, <1>2, <2>4, <3>1, <3>2 DEF LoopsHold
    <2>8. SameTalk(c, d) /\ (Granted(d) <=> Granted(c))
      BY <2>4 DEF SameTalk, Granted
    <2> QED BY <1>2, <2>4, <2>5, <2>6, <2>7, <2>8, AppSame, LockSame, QuietKeeps
  <1> QED BY <1>7, <1>8

\* A recorded grant makes an end ready that has a lease.
LEMMA WriterRecordsKeeps == ASSUME IInv, NEW e \in Ends, WriterRecords(e) PROVE IInv'
  <1> DEFINE c == conn[e]
             s == frames[e]
             new == c.ready \/ c.lease # Zero
             d == [c EXCEPT !.grantSent = TRUE, !.writing = NoFrame, !.sent = FALSE, !.ready = new]
  <1>1. c \in EndState /\ s \in Seq(Frame) /\ LoopsHold(c, s, app[e].at)
    BY Says
  <1>2. /\ c.err = "none" /\ c.sent
        /\ UNCHANGED World /\ UNCHANGED frames /\ UNCHANGED << app, lastUse >>
    BY DEF WriterRecords, World
  <1>3. conn' = [conn EXCEPT ![e] = d]
    BY <1>1 DEF WriterRecords, MarkReady, EndState, IInv, TypeOK
  <1>4. NoFrame \in Frame /\ new \in BOOLEAN /\ NoFrame.kind = "none"
    BY <1>1 DEF NoFrame, Frame, EndState
  <1> HIDE DEF new
  <1>5. d \in EndState
    BY <1>1, <1>4 DEF EndState
  <1>6. /\ d.err = c.err /\ d.pending = c.pending /\ d.nonce = c.nonce /\ d.issued = c.issued
        /\ d.peerNonce = c.peerNonce /\ d.control = c.control /\ d.writing = NoFrame
        /\ d.sent = FALSE /\ d.lease = c.lease /\ d.grantSent = TRUE /\ d.ready = new
        /\ d.writes = c.writes
    BY <1>1, <1>4 DEF EndState
  <1> HIDE DEF d
  <1>7. Touches(e) /\ conn'[e] = d
    BY <1>3, <1>5, SetConn
  <1>8. Reordered(c, s, d, s)
    BY <1>1, <1>2, <1>5, <1>6, RecordGrant
  <1>9. LoopsHold(d, s, app[e].at)
    BY <1>1, <1>2, <1>4, <1>6 DEF LoopsHold, new
  <1>10. SameTalk(c, d) /\ (Granted(d) <=> Granted(c))
    BY <1>2, <1>6 DEF SameTalk, Granted
  <1> QED BY <1>2, <1>6, <1>7, <1>8, <1>9, <1>10, AppSame, LockSame, QuietKeeps
\* What a write leaves behind.
LEMMA WrittenFacts ==
    ASSUME NEW c \in EndState, NEW d, d = Written(c), c.writing.kind \in {"challenge", "grant", "data"}
    PROVE  /\ d \in EndState /\ SameTalk(c, d) /\ d.issued = c.issued /\ d.lease = c.lease
           /\ d.control = c.control /\ d.grantSent = c.grantSent /\ d.ready = c.ready
           /\ c.writing.kind = "grant" => d.sent /\ d.writing = c.writing /\ d.writes = c.writes
           /\ c.writing.kind # "grant" => d.writing = NoFrame /\ d.sent = c.sent
           /\ d.writes = c.writes \/ d.writes = 0
  <1>1. NoFrame \in Frame
    BY DEF NoFrame, Frame
  <1>2. CASE c.writing.kind = "grant"
    <2>1. d = [c EXCEPT !.sent = TRUE]
      BY <1>2 DEF Written
    <2> QED BY <1>2, <2>1 DEF EndState, SameTalk
  <1>3. CASE c.writing.kind = "data"
    <2>1. d = [c EXCEPT !.writing = NoFrame, !.writes = 0]
      BY <1>3 DEF Written
    <2> QED BY <1>1, <1>3, <2>1 DEF EndState, SameTalk
  <1>4. CASE c.writing.kind = "challenge"
    <2>1. d = [c EXCEPT !.writing = NoFrame]
      BY <1>4 DEF Written
    <2> QED BY <1>1, <1>4, <2>1 DEF EndState, SameTalk
  <1> QED BY <1>2, <1>3, <1>4

\* A frame leaves: DATA only behind a grant that has left.
LEMMA WriterPutsKeeps == ASSUME IInv, NEW e \in Ends, WriterPuts(e) PROVE IInv'
  <1> DEFINE p == Peer(e)
             c == conn[e]
             o == conn[p]
             s == frames[e]
             t == frames[p]
             d == Written(c)
             u == Append(s, c.writing)
  <1>1. /\ c \in EndState /\ o \in EndState /\ s \in Seq(Frame) /\ t \in Seq(Frame) /\ c.err # "protocol"
        /\ LoopsHold(c, s, app[e].at) /\ Exchange(Lease[e], c, s, o, t) /\ Exchange(Lease[p], o, t, c, s)
        /\ DataHolds(c, o, t) /\ DataHolds(o, c, s)
    BY Says
  <1>2. /\ c.err = "none" /\ c.writing # NoFrame /\ ~c.sent
        /\ UNCHANGED World /\ UNCHANGED << app, lastUse >>
    BY DEF WriterPuts, World
  <1>3. CASE Reached(e, Deadline(e))
    BY <1>2, <1>3, StopKeeps DEF WriterPuts
  <1>4. CASE ~Reached(e, Deadline(e))
    <2>1. /\ frames' = [frames EXCEPT ![e] = u]
          /\ conn' = [conn EXCEPT ![e] = d]
      BY <1>1, <1>4 DEF WriterPuts, IInv, TypeOK
    <2>2. c.writing \in Frame /\ c.writing.kind \in {"challenge", "grant", "data"}
      BY <1>1, <1>2 DEF LoopsHold, EndState, Frame
    <2>3. /\ u \in Seq(Frame) /\ Elems(u) = Elems(s) \cup {c.writing}
          /\ \A k : Has(u, k) <=> Has(s, k) \/ c.writing.kind = k
          /\ Behind(s) /\ (c.writing.kind = "data" => Has(s, "grant")) => Behind(u)
      BY <1>1, <2>2, Added
    <2>4. /\ d \in EndState /\ SameTalk(c, d) /\ d.issued = c.issued /\ d.lease = c.lease
          /\ d.control = c.control /\ d.grantSent = c.grantSent /\ d.ready = c.ready
          /\ c.writing.kind = "grant" => d.sent /\ d.writing = c.writing /\ d.writes = c.writes
          /\ c.writing.kind # "grant" => d.writing = NoFrame /\ d.sent = c.sent
          /\ d.writes = c.writes \/ d.writes = 0
      BY <1>1, <2>2, WrittenFacts
    <2> HIDE DEF d, u
    <2>5. Touches(e) /\ conn'[e] = d
      BY <2>1, <2>4, SetConn
    <2>6. frames' \in [Ends -> Seq(Frame)] /\ frames'[e] = u /\ frames'[p] = t
      <3>1. p \in Ends /\ p # e /\ frames \in [Ends -> Seq(Frame)]
        BY Two DEF IInv, TypeOK
      <3> QED BY <2>1, <2>3, <3>1
    <2>7. Reordered(c, s, d, u)
      BY <1>1, <1>2, <2>4, PutFrame DEF u
    <2>8. Exchange(Lease[e], d, u, o, t) /\ Exchange(Lease[p], o, t, d, u)
      <3>1. Reordered(o, t, o, t)
        BY <1>1, SameStream
      <3> QED BY <1>1, <2>4, <2>7, <3>1, ReorderKeeps
    <2>9. NoFrame.kind = "none" /\ c.ready \in BOOLEAN
      BY <1>1 DEF NoFrame, EndState
    <2>10. LoopsHold(d, u, app[e].at)
      BY <1>1, <1>2, <2>2, <2>3, <2>4, <2>9 DEF LoopsHold, SameTalk
    <2>11. DataHolds(d, o, t)
      BY <1>1, <2>4 DEF DataHolds, SameTalk
    <2>12. DataHolds(o, d, u)
      <3>1. Granted(d) <=> Granted(c) \/ c.writing.kind = "grant"
        BY <1>2, <2>4 DEF Granted
      <3>2. c.writing.kind = "data" => Granted(c)
        BY <1>1 DEF LoopsHold, Granted
      <3>3. ASSUME o.err = "none", o.lease = Zero PROVE Behind(u) /\ (Granted(d) => Has(u, "grant"))
        <4>1. Behind(s) /\ (Granted(c) => Has(s, "grant"))
          BY <1>1, <3>3 DEF DataHolds
        <4> QED BY <2>3, <3>1, <3>2, <4>1
      <3>4. ASSUME d.err = "none", o.lease # Zero \/ Has(u, "grant") PROVE Granted(d)
        BY <1>1, <1>2, <2>3, <3>1, <3>4 DEF DataHolds
      <3> QED BY <3>3, <3>4 DEF DataHolds
    <2>13. CutHolds(e, d, o, t)
      BY <1>1, <2>4, CutSame DEF SameTalk
    <2>14. CutHolds(p, o, d, u)
      <3>1. Unread(d, u, "grant") => Unread(c, s, "grant")
        BY <2>7 DEF Reordered
      <3> QED BY <2>3, <2>4, <3>1, CutOther
    <2>15. d.err # "protocol"
      BY <1>1, <2>4 DEF SameTalk
    <2> QED
      BY <1>2, <2>5, <2>6, <2>8, <2>10, <2>11, <2>12, <2>13, <2>14, <2>15, AppSame, LockSame, Assembles
      DEF ReadsOne
  <1> QED BY <1>3, <1>4
-----------------------------------------------------------------------------
(* The reader. *)

\* DATA finds the lease it was sent under, and is held until the end is ready.
LEMMA ReadDataKeeps == ASSUME IInv, NEW e \in Ends, ReadData(e) PROVE IInv'
  <1> DEFINE p == Peer(e)
             c == conn[e]
             o == conn[p]
             s == frames[e]
             t == frames[p]
             v == Tail(t)
             d == [c EXCEPT !.holding = TRUE]
  <1>1. /\ c \in EndState /\ o \in EndState /\ s \in Seq(Frame) /\ t \in Seq(Frame) /\ c.err # "protocol"
        /\ LoopsHold(c, s, app[e].at) /\ Exchange(Lease[e], c, s, o, t) /\ Exchange(Lease[p], o, t, c, s)
        /\ DataHolds(c, o, t) /\ DataHolds(o, c, s)
    BY Says
  <1>2. /\ c.err = "none" /\ t # << >> /\ Head(t).kind = "data"
        /\ UNCHANGED World /\ UNCHANGED << app, lastUse >>
        /\ frames' = [frames EXCEPT ![p] = Tail(@)]
    BY DEF ReadData, World
  <1>3. c.lease # Zero
    BY <1>1, <1>2, HeadTaken DEF DataHolds
  <1>4. CASE ~Permitted(e)
    <2>1. Stop(e, "stopped")
      BY <1>4 DEF ReadData
    <2> QED BY <1>2, <2>1, StopKeeps
  <1>5. CASE Permitted(e)
    <2>1. conn' = [conn EXCEPT ![e] = d]
      BY <1>1, <1>3, <1>5 DEF ReadData, HaveLease, IInv, TypeOK
    <2>2. d \in EndState
      BY <1>1 DEF EndState
    <2>3. /\ d.err = c.err /\ d.pending = c.pending /\ d.nonce = c.nonce /\ d.issued = c.issued
          /\ d.peerNonce = c.peerNonce /\ d.control = c.control /\ d.writing = c.writing
          /\ d.sent = c.sent /\ d.lease = c.lease /\ d.grantSent = c.grantSent /\ d.ready = c.ready
          /\ d.writes = c.writes
      BY <1>1 DEF EndState
    <2>4. Touches(e) /\ conn'[e] = d
      BY <2>1, <2>2, SetConn
    <2>5. /\ v \in Seq(Frame)
          /\ \A k : k # "data" => (Has(t, k) <=> Has(v, k))
          /\ \A f \in Stream(o, v) : f \in Stream(o, t)
          /\ \A k : k # "data" => (Unread(o, v, k) <=> Unread(o, t, k)) /\ (Once(o, t, k) => Once(o, v, k))
      BY <1>1, <1>2, HeadTaken, ReadOff
    <2>6. frames' \in [Ends -> Seq(Frame)] /\ frames'[e] = s /\ frames'[p] = v
      <3>1. p \in Ends /\ p # e /\ frames \in [Ends -> Seq(Frame)]
        BY Two DEF IInv, TypeOK
      <3> QED BY <1>2, <2>5, <3>1
    <2> HIDE DEF d, v
    <2>7. Reordered(o, t, o, v)
      BY <2>5 DEF Reordered
    <2>8. Exchange(Lease[e], d, s, o, v) /\ Exchange(Lease[p], o, v, d, s)
      <3>1. Reordered(c, s, d, s) /\ SameTalk(c, d)
        BY <1>1, <2>2, <2>3, SameStream DEF SameTalk
      <3> QED BY <1>1, <2>2, <2>7, <3>1, ReorderKeeps
    <2>9. LoopsHold(d, s, app[e].at)
      BY <1>1, <2>3 DEF LoopsHold
    <2>10. DataHolds(d, o, v)
      BY <1>1, <1>3, <2>3, <2>5 DEF DataHolds
    <2>11. DataHolds(o, d, s)
      BY <1>1, <2>3 DEF DataHolds, Granted
    <2>12. CutHolds(e, d, o, v)
      BY <2>2, <2>3, <2>5, CutSame
    <2>13. CutHolds(p, o, d, s)
      <3>1. Unread(d, s, "grant") => Unread(c, s, "grant")
        BY <2>3 DEF Unread, Unsent
      <3> QED BY <1>1, <2>2, <3>1, CutOther
    <2> QED
      BY <1>1, <1>2, <2>3, <2>4, <2>6, <2>8, <2>9, <2>10, <2>11, <2>12, <2>13, AppSame, LockSame,
         Assembles
      DEF ReadsOne, v
  <1> QED BY <1>4, <1>5
\* A challenge is answered once, and its answer finds room.
LEMMA AnswersKeeps ==
    ASSUME IInv, NEW e \in Ends, ReadControl(e), Permitted(e), Live(e),
           Head(frames[Peer(e)]).kind = "challenge"
    PROVE  IInv'
  <1> DEFINE p == Peer(e)
             c == conn[e]
             o == conn[p]
             s == frames[e]
             t == frames[p]
             v == Tail(t)
             f == Head(t)
             g == [kind |-> "grant", nonce |-> f.nonce, span |-> Least(f.span, Lease[e])]
             d == [c EXCEPT !.peerNonce = f.nonce, !.control = Append(c.control, g)]
  <1>1. /\ c \in EndState /\ o \in EndState /\ s \in Seq(Frame) /\ t \in Seq(Frame) /\ c.err # "protocol"
        /\ LoopsHold(c, s, app[e].at) /\ Exchange(Lease[e], c, s, o, t) /\ Exchange(Lease[p], o, t, c, s)
        /\ DataHolds(c, o, t) /\ DataHolds(o, c, s) /\ Lease[e] \in Nat /\ Lease[p] \in Nat
    BY Says
  <1>2. /\ c.err = "none" /\ t # << >> /\ f.kind = "challenge"
        /\ UNCHANGED World /\ UNCHANGED << app, lastUse >>
        /\ frames' = [frames EXCEPT ![p] = Tail(@)]
    BY DEF ReadControl, World
  <1>3. /\ v \in Seq(Frame) /\ f \in Frame
        /\ \A k : k # "challenge" => (Has(t, k) <=> Has(v, k))
        /\ Behind(t) => Behind(v)
        /\ f \in Stream(o, t)
        /\ Unread(o, v, "grant") => Unread(o, t, "grant")
    BY <1>1, <1>2, HeadTaken, ReadOff
  <1>4. f.nonce > c.peerNonce /\ f.nonce \in Nat /\ c.peerNonce \in Nat /\ f.span \in Nat
    BY <1>1, <1>2, <1>3 DEF Exchange, Asks, EndState, Frame
  <1>5. c.control \in Seq(Frame)
    BY <1>1 DEF EndState
  <1>6. Len(c.control) < ControlCapacity
    <2>1. Len(c.control) < 2
      <3>1. Unread(o, t, "challenge")
        BY <1>1, <1>2, <1>3, UnreadFrames
      <3>2. One(c.control, "challenge") /\ One(c.control, "grant") /\ ~Has(c.control, "grant")
        BY <1>1, <3>1 DEF Exchange, Places, Once, Unread
      <3>3. \A h \in Elems(c.control) : h.kind \in {"challenge", "grant"}
        BY <1>1 DEF LoopsHold
      <3> QED BY <1>5, <3>2, <3>3, ShortQueue
    <2>2. Len(c.control) \in Nat /\ ControlCapacity \in Nat /\ ControlCapacity >= 2
      BY <1>5, LenProperties, LeaseBounds
    <2> QED BY <2>1, <2>2
  <1>7. AnswersChallenge(e, f)
    BY <1>2 DEF ReadControl
  <1>8. conn' = [conn EXCEPT ![e] = d]
    <2>1. ~(f.nonce = c.peerNonce \/ Len(c.control) >= ControlCapacity)
      <3>1. Len(c.control) \in Nat /\ ControlCapacity \in Nat
        BY <1>5, LenProperties, LeaseBounds
      <3> QED BY <1>4, <1>6, <3>1
    <2> QED BY <1>1, <1>7, <2>1 DEF AnswersChallenge, IInv, TypeOK
  <1>9. g \in Frame /\ g.kind = "grant" /\ g.nonce = f.nonce /\ g.span <= f.span
    BY <1>1, <1>4 DEF Frame, Least
  <1> HIDE DEF g
  <1>10. Append(c.control, g) \in Seq(Frame) /\ Elems(Append(c.control, g)) = Elems(c.control) \cup {g}
    BY <1>5, <1>9, Added
  <1>11. d \in EndState
    BY <1>1, <1>4, <1>10 DEF EndState
  <1>12. /\ d.err = c.err /\ d.pending = c.pending /\ d.nonce = c.nonce /\ d.issued = c.issued
         /\ d.peerNonce = f.nonce /\ d.control = Append(c.control, g) /\ d.writing = c.writing
         /\ d.sent = c.sent /\ d.lease = c.lease /\ d.grantSent = c.grantSent /\ d.ready = c.ready
         /\ d.writes = c.writes
    BY <1>1 DEF EndState
  <1>13. Touches(e) /\ conn'[e] = d
    BY <1>8, <1>11, SetConn
  <1>14. frames' \in [Ends -> Seq(Frame)] /\ frames'[e] = s /\ frames'[p] = v
    <2>1. p \in Ends /\ p # e /\ frames \in [Ends -> Seq(Frame)]
      BY Two DEF IInv, TypeOK
    <2> QED BY <1>2, <1>3, <2>1
  <1> HIDE DEF d
  <1>15. Exchange(Lease[e], d, s, o, v) /\ Exchange(Lease[p], o, v, d, s)
    BY <1>1, <1>2, <1>9, <1>11, <1>12, AnswerExchange
  <1>16. LoopsHold(d, s, app[e].at)
    BY <1>1, <1>9, <1>10, <1>12 DEF LoopsHold
  <1> HIDE DEF v
  <1>17. DataHolds(d, o, v)
    BY <1>1, <1>3, <1>12 DEF DataHolds
  <1>18. DataHolds(o, d, s)
    BY <1>1, <1>12 DEF DataHolds, Granted
  <1>19. CutHolds(e, d, o, v)
    BY <1>3, <1>11, <1>12, CutSame
  <1>20. CutHolds(p, o, d, s)
    <2>1. denier # e
      BY DEF Permitted
    <2> QED BY <1>1, <1>11, <2>1, CutOther
  <1> QED
    BY <1>1, <1>2, <1>12, <1>13, <1>14, <1>15, <1>16, <1>17, <1>18, <1>19, <1>20, AppSame, LockSame,
       Assembles
    DEF ReadsOne, v

\* The connection that has taken grant f.
Leased(c, f, next) ==
    [c EXCEPT !.lease = Plus(c.issued, f.span), !.pending = FALSE, !.next = next,
              !.ready = c.ready \/ c.grantSent]

\* A grant is the one its reader waits for, and gives it a lease that counts
\* from its own challenge.
LEMMA TakesKeeps ==
    ASSUME IInv, NEW e \in Ends, ReadControl(e), Permitted(e), Live(e),
           Head(frames[Peer(e)]).kind = "grant"
    PROVE  IInv'
  <1> DEFINE p == Peer(e)
             c == conn[e]
             o == conn[p]
             s == frames[e]
             t == frames[p]
             v == Tail(t)
             f == Head(t)
             third == Plus(c.issued, f.span \div 3)
             next == IF third.m < c.next.m THEN third ELSE c.next
             d == Leased(c, f, next)
  <1>1. /\ c \in EndState /\ o \in EndState /\ s \in Seq(Frame) /\ t \in Seq(Frame) /\ c.err # "protocol"
        /\ LoopsHold(c, s, app[e].at) /\ Exchange(Lease[e], c, s, o, t) /\ Exchange(Lease[p], o, t, c, s)
        /\ DataHolds(c, o, t) /\ DataHolds(o, c, s) /\ Lease[e] \in Nat /\ Lease[p] \in Nat
    BY Says
  <1>2. /\ c.err = "none" /\ t # << >> /\ f.kind = "grant"
        /\ UNCHANGED World /\ UNCHANGED << app, lastUse >>
        /\ frames' = [frames EXCEPT ![p] = Tail(@)]
    BY DEF ReadControl, World
  <1>3. /\ v \in Seq(Frame) /\ f \in Frame
        /\ \A k : Has(v, k) => Has(t, k)
        /\ Has(t, "grant") /\ f \in Stream(o, t)
        /\ Unread(o, v, "grant") => Unread(o, t, "grant")
    BY <1>1, <1>2, HeadTaken, ReadOff
  <1>4. Unread(o, t, "grant")
    BY <1>3 DEF Unread
  <1>5. c.pending /\ f.nonce = c.nonce /\ f.span <= Lease[e]
    BY <1>1, <1>2, <1>3 DEF Exchange, Answers
  <1>6. f.span \in Nat /\ c.issued \in Time /\ c.next \in Time /\ c.issued.m > 0
    BY <1>1, <1>2, <1>3 DEF EndState, Frame, LoopsHold
  <1>7. TakesGrant(e, f)
    BY <1>2 DEF ReadControl
  <1>8. CASE Reached(e, LeaseFrom(e, f))
    <2>1. Stop(e, "stopped")
      BY <1>1, <1>5, <1>6, <1>7, <1>8 DEF TakesGrant
    <2> QED BY <1>2, <2>1, StopKeeps
  <1>9. CASE ~Reached(e, LeaseFrom(e, f))
    <2> DEFINE lease == Plus(c.issued, f.span)
    <2>1. lease \in Time /\ lease # Zero /\ lease.m = c.issued.m + f.span /\ lease.w = c.issued.w + f.span
      BY <1>6, PlusFacts
    <2>2. third \in Time /\ next \in Time
      <3>1. f.span \div 3 \in Nat
        BY <1>6
      <3> QED BY <1>6, <3>1, PlusFacts
    <2>3. conn' = [conn EXCEPT ![e] = d]
      <3>1. ~(~c.pending \/ f.nonce # c.nonce \/ f.span > Lease[e])
        BY <1>1, <1>5, <1>6
      <3> DEFINE new == MarkReady([c EXCEPT !.lease = lease, !.pending = FALSE,
                                            !.next = next])
      <3>2. conn' = [conn EXCEPT ![e] = new]
        BY <1>7, <1>9, <3>1 DEF TakesGrant, LeaseFrom
      <3> HIDE DEF lease, third
      <3>3. new = [c EXCEPT !.lease = lease, !.pending = FALSE, !.next = next,
                            !.ready = c.ready \/ c.grantSent]
        BY <1>1, <2>1 DEF MarkReady, EndState
      <3> HIDE DEF next, new
      <3>4. new = d
        BY <3>3 DEF Leased, lease
      <3> HIDE DEF d
      <3> QED BY <3>2, <3>4
    <2> HIDE DEF third, next
    <2>4. d = [c EXCEPT !.lease = lease, !.pending = FALSE, !.next = next,
                        !.ready = c.ready \/ c.grantSent]
      BY DEF Leased
    <2>5. c.ready \in BOOLEAN /\ c.grantSent \in BOOLEAN
      BY <1>1 DEF EndState
    <2> HIDE DEF lease, d
    <2>6. d \in EndState
      BY <1>1, <2>1, <2>2, <2>4, <2>5 DEF EndState
    <2>7. /\ d.err = c.err /\ ~d.pending /\ d.nonce = c.nonce /\ d.issued = c.issued
          /\ d.peerNonce = c.peerNonce /\ d.control = c.control /\ d.writing = c.writing
          /\ d.sent = c.sent /\ d.lease = lease /\ d.grantSent = c.grantSent
          /\ (d.ready <=> c.ready \/ c.grantSent) /\ d.writes = c.writes
      BY <1>1, <2>4, <2>5 DEF EndState
    <2>8. Touches(e) /\ conn'[e] = d
      BY <2>3, <2>6, SetConn
    <2>9. frames' \in [Ends -> Seq(Frame)] /\ frames'[e] = s /\ frames'[p] = v
      <3>1. p \in Ends /\ p # e /\ frames \in [Ends -> Seq(Frame)]
        BY Two DEF IInv, TypeOK
      <3> QED BY <1>2, <1>3, <3>1
    <2>10. Exchange(Lease[e], d, s, o, v) /\ Exchange(Lease[p], o, v, d, s)
      BY <1>1, <1>2, <2>6, <2>7, GrantExchange
    <2>11. LoopsHold(d, s, app[e].at)
      BY <1>1, <1>2, <2>1, <2>7 DEF LoopsHold
    <2> HIDE DEF v
    <2>12. DataHolds(d, o, v)
      BY <1>1, <1>3, <2>1, <2>7 DEF DataHolds
    <2>13. DataHolds(o, d, s)
      BY <1>1, <2>7 DEF DataHolds, Granted
    <2>14. CutHolds(e, d, o, v)
      <3>1. /\ AtMost(e, c.issued, now)
            /\ denier = p => AtMost(e, c.issued, lockedAt)
        BY <1>2, <1>4 DEF IInv, EndHolds, CutHolds
      <3>2. now \in Nat /\ lockedAt \in Nat
        BY DEF IInv, TypeOK
      <3>3. ASSUME NEW n \in Nat, AtMost(e, c.issued, n) PROVE AtMost(e, lease, n + Lease[e])
        <4>1. /\ c.issued.m \in Int /\ c.issued.w \in Int /\ Lease[e] \in Nat
              /\ f.span \in Nat /\ f.span <= Lease[e]
          BY <1>1, <1>5, <1>6 DEF Time
        <4> HIDE DEF c, f
        <4> QED BY <2>1, <3>3, <4>1 DEF AtMost
      <3> QED BY <2>7, <3>1, <3>2, <3>3 DEF CutHolds
    <2>15. CutHolds(p, o, d, s)
      <3>1. Unread(d, s, "grant") => Unread(c, s, "grant")
        BY <2>7 DEF Unread, Unsent
      <3> QED BY <1>1, <2>6, <3>1, CutOther
    <2> QED
      BY <1>1, <1>2, <2>7, <2>8, <2>9, <2>10, <2>11, <2>12, <2>13, <2>14, <2>15, AppSame, LockSame,
         Assembles
      DEF ReadsOne, v
  <1> QED BY <1>8, <1>9

\* receiveControl.
LEMMA ReadControlKeeps == ASSUME IInv, NEW e \in Ends, ReadControl(e) PROVE IInv'
  <1> DEFINE t == frames[Peer(e)]
  <1>1. /\ t # << >> /\ Head(t).kind # "data" /\ UNCHANGED World /\ UNCHANGED << app, lastUse >>
        /\ frames' = [frames EXCEPT ![Peer(e)] = Tail(@)]
    BY DEF ReadControl, World
  <1>2. CASE ~(Permitted(e) /\ Live(e))
    <2>1. Stop(e, "stopped")
      BY <1>2 DEF ReadControl
    <2> QED BY <1>1, <2>1, StopKeeps
  <1>3. CASE Permitted(e) /\ Live(e)
    <2>1. t \in Seq(Frame) /\ \A f \in Elems(t) : f.kind # "none"
      BY Two DEF IInv, TypeOK, EndHolds, LoopsHold
    <2>2. Head(t) \in Frame /\ Head(t) \in Elems(t)
      BY <1>1, <2>1, HeadTaken
    <2>3. Head(t).kind = "challenge" \/ Head(t).kind = "grant"
      BY <1>1, <2>1, <2>2 DEF Frame
    <2> QED BY <1>3, <2>3, AnswersKeeps, TakesKeeps
  <1> QED BY <1>2, <1>3
-----------------------------------------------------------------------------
(* The session above the connection. *)

AppTypes == [Ends -> [at : {"wait", "dial", "hello", "open", "closed"}, left : Nat]]

\* What the application hands over and takes: no frame moves.
Handed(c, h, n, w) == [c EXCEPT !.holding = h, !.data = n, !.writes = w]

\* Such a step keeps the invariant if only a ready end writes or is open.
LEMMA HandedKeeps ==
    ASSUME IInv, NEW e \in Ends, NEW h \in BOOLEAN, NEW n \in Nat, NEW w \in {0, 1},
           conn' = [conn EXCEPT ![e] = Handed(conn[e], h, n, w)],
           UNCHANGED World, UNCHANGED frames, LockHolds', lastUse' \in Nat,
           app' \in AppTypes, app'[Peer(e)] = app[Peer(e)],
           w > 0 => conn[e].ready,
           conn[e].err = "none" /\ app'[e].at \in {"dial", "hello", "open"} => conn[e].ready
    PROVE  IInv'
  <1> DEFINE c == conn[e]
             s == frames[e]
             d == Handed(c, h, n, w)
  <1>1. c \in EndState /\ s \in Seq(Frame) /\ LoopsHold(c, s, app[e].at)
    BY Says
  <1>2. d \in EndState
    BY <1>1 DEF EndState, Handed
  <1>3. /\ d.err = c.err /\ d.pending = c.pending /\ d.nonce = c.nonce /\ d.issued = c.issued
        /\ d.peerNonce = c.peerNonce /\ d.control = c.control /\ d.writing = c.writing
        /\ d.sent = c.sent /\ d.lease = c.lease /\ d.grantSent = c.grantSent /\ d.ready = c.ready
        /\ d.writes = w
    BY <1>1 DEF EndState, Handed
  <1>4. Touches(e) /\ conn'[e] = d
    BY <1>2, SetConn
  <1> HIDE DEF d
  <1>5. Reordered(c, s, d, s)
    BY <1>1, <1>2, <1>3, SameStream
  <1>6. LoopsHold(d, s, app'[e].at)
    BY <1>1, <1>3 DEF LoopsHold
  <1>7. SameTalk(c, d) /\ (Granted(d) <=> Granted(c))
    BY <1>3 DEF SameTalk, Granted
  <1> QED BY <1>3, <1>4, <1>5, <1>6, <1>7, QuietKeeps DEF AppTypes

\* A ready end that is not authorized has expired.
LEMMA ReadyExpires ==
    ASSUME IInv, NEW e \in Ends, conn[e].ready, ~Authorized(e), StopUnauthorized(e)
    PROVE  Stop(e, "stopped")
  <1>1. LoopsHold(conn[e], frames[e], app[e].at)
    BY Says
  <1> QED BY <1>1 DEF StopUnauthorized, Authorized, LoopsHold

\* An end whose session has begun is ready, and so is one that is authorized.
LEMMA ReadyOnce ==
    ASSUME IInv, NEW e \in Ends
    PROVE  /\ conn[e].err = "none" /\ app[e].at \in {"dial", "hello", "open"} => conn[e].ready
           /\ conn \in [Ends -> EndState] /\ conn[e] \in EndState /\ conn[e].data \in Nat
           /\ conn[e].writes \in {0, 1} /\ conn[e].holding \in BOOLEAN
           /\ app \in AppTypes /\ app[e].left \in Nat /\ app[e].at \in {"wait", "dial", "hello", "open", "closed"}
           /\ conn[e].writes > 0 => conn[e].ready
  <1>1. LoopsHold(conn[e], frames[e], app[e].at)
    BY Says
  <1>2. conn \in [Ends -> EndState] /\ app \in AppTypes
    BY DEF IInv, TypeOK, AppTypes
  <1>3. conn[e] \in EndState /\ conn[e].data \in Nat /\ conn[e].writes \in {0, 1} /\ conn[e].holding \in BOOLEAN
    BY <1>2 DEF EndState
  <1>4. app[e].left \in Nat /\ app[e].at \in {"wait", "dial", "hello", "open", "closed"}
    BY <1>2 DEF AppTypes
  <1> QED BY <1>1, <1>2, <1>3, <1>4 DEF LoopsHold

\* Held DATA is admitted once the end is ready.
LEMMA ReaderAdmitsKeeps == ASSUME IInv, NEW e \in Ends, ReaderAdmits(e) PROVE IInv'
  <1> DEFINE c == conn[e]
  <1>1. /\ c.err = "none" /\ c.ready
        /\ UNCHANGED World /\ UNCHANGED frames /\ UNCHANGED << app, lastUse >>
    BY DEF ReaderAdmits, World
  <1>2. CASE Authorized(e)
    <2>1. conn' = [conn EXCEPT ![e].holding = FALSE, ![e].data = @ + 1]
      BY <1>2 DEF ReaderAdmits
    <2>2. conn' = [conn EXCEPT ![e] = Handed(c, FALSE, c.data + 1, c.writes)]
      BY <2>1, ReadyOnce DEF Handed, EndState
    <2>3. c.data + 1 \in Nat
      BY ReadyOnce
    <2> QED BY <1>1, <2>2, <2>3, ReadyOnce, AppSame, LockSame, HandedKeeps
  <1>3. CASE ~Authorized(e)
    <2>1. StopUnauthorized(e)
      BY <1>3 DEF ReaderAdmits
    <2> QED BY <1>1, <1>3, <2>1, ReadyExpires, StopKeeps
  <1> QED BY <1>2, <1>3

\* authenticate returns at an end with a ready lease.
LEMMA SessionReadyKeeps == ASSUME IInv, NEW e \in Ends, SessionReady(e) PROVE IInv'
  <1> DEFINE c == conn[e]
             at == IF e = "receiver" THEN "dial" ELSE "hello"
  <1>1. /\ UNCHANGED conn /\ UNCHANGED World /\ UNCHANGED frames /\ UNCHANGED lastUse
        /\ c.ready /\ app' = [app EXCEPT ![e].at = at]
    BY DEF SessionReady, World, Authorized
  <1>2. conn' = [conn EXCEPT ![e] = Handed(c, c.holding, c.data, c.writes)]
    BY <1>1, ReadyOnce DEF Handed, EndState
  <1>3. app' \in AppTypes /\ app'[Peer(e)] = app[Peer(e)]
    BY <1>1, ReadyOnce, Two DEF AppTypes
  <1> QED BY <1>1, <1>2, <1>3, ReadyOnce, LockSame, HandedKeeps

\* serveSession writes READY under a lease checked again.
LEMMA SshDialedKeeps == ASSUME IInv, NEW e \in Ends, SshDialed(e) PROVE IInv'
  <1> DEFINE c == conn[e]
  <1>1. /\ c.err = "none" /\ c.ready
        /\ UNCHANGED World /\ UNCHANGED frames /\ UNCHANGED lastUse
    BY ReadyOnce DEF SshDialed, World
  <1>2. CASE Authorized(e)
    <2>1. conn' = [conn EXCEPT ![e].writes = 1] /\ app' = [app EXCEPT ![e].at = "open"]
      BY <1>2 DEF SshDialed
    <2>2. conn' = [conn EXCEPT ![e] = Handed(c, c.holding, c.data, 1)]
      BY <2>1, ReadyOnce DEF Handed, EndState
    <2>3. app' \in AppTypes /\ app'[Peer(e)] = app[Peer(e)]
      BY <2>1, ReadyOnce, Two DEF AppTypes
    <2> QED BY <1>1, <2>2, <2>3, ReadyOnce, LockSame, HandedKeeps
  <1>3. CASE ~Authorized(e)
    <2>1. StopUnauthorized(e) /\ UNCHANGED app
      BY <1>3 DEF SshDialed
    <2> QED BY <1>1, <1>3, <2>1, ReadyExpires, StopKeeps
  <1> QED BY <1>2, <1>3

\* An authorized end whose peer is locked is still within its lease.
LEMMA Cutoff ==
    ASSUME IInv, NEW e \in Ends, Authorized(e), denier = Peer(e)
    PROVE  now < lockedAt + Lease[e]
  <1> DEFINE x == conn[e].lease
  <1>1. x # Zero /\ AtMost(e, x, lockedAt + Lease[e])
    BY DEF IInv, EndHolds, CutHolds, Authorized
  <1>2. ~Reached(e, x)
    BY <1>1 DEF Authorized, Live, Deadline
  <1>3. x \in Time /\ lockedAt \in Nat /\ now \in Nat /\ Lease[e] \in Nat
    BY Says DEF IInv, TypeOK, EndState
  <1>4. /\ Clock(e) \in Time /\ (Steady(e, "m") => Clock(e).m = now)
        /\ (Steady(e, "w") => Clock(e).w = now) /\ (Steady(e, "m") \/ Steady(e, "w"))
    BY ClockFacts DEF IInv
  <1>5. Clock(e).m < x.m /\ Clock(e).w < x.w
    BY <1>2, <1>3, <1>4 DEF Reached, Time
  <1> HIDE DEF x
  <1>6. x.m \in Int /\ x.w \in Int
    BY <1>3 DEF Time
  <1> QED BY <1>1, <1>3, <1>4, <1>5, <1>6 DEF AtMost

\* EndState.Read hands DATA over only before the cutoff.
LEMMA AppReadsKeeps == ASSUME IInv, NEW e \in Ends, AppReads(e) PROVE IInv'
  <1> DEFINE c == conn[e]
  <1>1. /\ c.err = "none" /\ c.ready /\ c.data > 0
        /\ UNCHANGED World /\ UNCHANGED frames
    BY ReadyOnce DEF AppReads, World
  <1>2. CASE Authorized(e)
    <2>1. /\ conn' = [conn EXCEPT ![e].data = @ - 1] /\ app' = [app EXCEPT ![e].at = "open"]
          /\ lastUse' = IF denier = Peer(e) THEN now ELSE lastUse
      BY <1>2 DEF AppReads
    <2>2. conn' = [conn EXCEPT ![e] = Handed(c, c.holding, c.data - 1, c.writes)]
      BY <2>1, ReadyOnce DEF Handed, EndState
    <2>3. app' \in AppTypes /\ app'[Peer(e)] = app[Peer(e)]
      BY <2>1, ReadyOnce, Two DEF AppTypes
    <2>4. c.data - 1 \in Nat
      BY <1>1, ReadyOnce
    <2>5. UNCHANGED << now, denier, lockedAt >> /\ LockHolds /\ now \in Nat /\ lastUse \in Nat
      BY <1>1 DEF World, IInv, TypeOK
    <2>6. lastUse' \in Nat
      BY <2>1, <2>5
    <2>7. LockHolds'
      <3>1. CASE denier = Peer(e)
        <4>1. now < lockedAt + Lease[e] /\ Peer(denier) = e /\ denier # "nobody"
          BY <1>2, <3>1, Cutoff, Two DEF Ends
        <4> QED BY <2>1, <2>5, <3>1, <4>1 DEF LockHolds, CutoffBound
      <3>2. CASE denier # Peer(e)
        BY <2>1, <2>5, <3>2 DEF LockHolds, CutoffBound
      <3> QED BY <3>1, <3>2
    <2> QED BY <1>1, <2>2, <2>3, <2>4, <2>6, <2>7, ReadyOnce, HandedKeeps
  <1>3. CASE ~Authorized(e)
    <2>1. StopUnauthorized(e) /\ UNCHANGED << app, lastUse >>
      BY <1>3 DEF AppReads
    <2> QED BY <1>1, <1>3, <2>1, ReadyExpires, StopKeeps
  <1> QED BY <1>2, <1>3

\* EndState.Write submits DATA under a lease.
LEMMA AppWritesKeeps == ASSUME IInv, NEW e \in Ends, AppWrites(e) PROVE IInv'
  <1> DEFINE c == conn[e]
  <1>1. /\ c.err = "none" /\ c.ready /\ app[e].left > 0
        /\ UNCHANGED World /\ UNCHANGED frames /\ UNCHANGED lastUse
    BY ReadyOnce DEF AppWrites, World
  <1>2. CASE Authorized(e)
    <2>1. conn' = [conn EXCEPT ![e].writes = 1] /\ app' = [app EXCEPT ![e].left = @ - 1]
      BY <1>2 DEF AppWrites
    <2>2. conn' = [conn EXCEPT ![e] = Handed(c, c.holding, c.data, 1)]
      BY <2>1, ReadyOnce DEF Handed, EndState
    <2>3. app[e].left - 1 \in Nat
      BY <1>1, ReadyOnce
    <2>4. app' \in AppTypes /\ app'[Peer(e)] = app[Peer(e)]
      BY <2>1, <2>3, ReadyOnce, Two DEF AppTypes
    <2> QED BY <1>1, <2>2, <2>4, ReadyOnce, LockSame, HandedKeeps
  <1>3. CASE ~Authorized(e)
    <2>1. StopUnauthorized(e) /\ UNCHANGED app
      BY <1>3 DEF AppWrites
    <2> QED BY <1>1, <1>3, <2>1, ReadyExpires, StopKeeps
  <1> QED BY <1>2, <1>3

\* The session of a stopped connection closes.
LEMMA SessionClosesKeeps == ASSUME IInv, NEW e \in Ends, SessionCloses(e) PROVE IInv'
  <1> DEFINE c == conn[e]
  <1>1. /\ UNCHANGED conn /\ UNCHANGED World /\ UNCHANGED frames /\ UNCHANGED lastUse
        /\ c.err # "none" /\ app' = [app EXCEPT ![e] = [at |-> "closed", left |-> 0]]
    BY DEF SessionCloses, World
  <1>2. conn' = [conn EXCEPT ![e] = Handed(c, c.holding, c.data, c.writes)]
    BY <1>1, ReadyOnce DEF Handed, EndState
  <1>3. app' \in AppTypes /\ app'[Peer(e)] = app[Peer(e)]
    BY <1>1, ReadyOnce, Two DEF AppTypes
  <1>4. app'[e].at = "closed"
    BY <1>1, ReadyOnce DEF AppTypes
  <1>5. c.writes \in {0, 1} /\ c.holding \in BOOLEAN /\ c.data \in Nat /\ (c.writes > 0 => c.ready)
    BY ReadyOnce
  <1>6. ~(app'[e].at \in {"dial", "hello", "open"})
    BY <1>4
  <1>7. LockHolds' /\ lastUse' \in Nat
    BY <1>1, LockSame
  <1>8. /\ UNCHANGED World /\ UNCHANGED frames
        /\ (c.err = "none" /\ app'[e].at \in {"dial", "hello", "open"} => c.ready)
    BY <1>1, <1>6
  <1> HIDE DEF c
  <1>9. c = conn[e]
    BY DEF c
  <1> QED BY <1>2, <1>3, <1>5, <1>7, <1>8, <1>9, HandedKeeps
-----------------------------------------------------------------------------
(* Hosts, and the theorems. *)

\* A step of the hosts disturbs the cutoffs only.
LEMMA HostKeeps ==
    ASSUME IInv, UNCHANGED << conn, frames, app >>, TypeOK', LockHolds',
           \A e \in Ends : CutHolds(e, conn[e], conn[Peer(e)], frames[Peer(e)])'
    PROVE  IInv'
  <1>1. NoProtocolFault'
    BY DEF IInv, NoProtocolFault
  <1>2. ASSUME NEW e \in Ends PROVE EndHolds(e)'
    BY <1>2 DEF IInv, EndHolds
  <1> QED BY <1>1, <1>2 DEF IInv

\* SetLocked: every challenge under way is no later than the lock.
LEMMA LockHostKeeps == ASSUME IInv, NEW e \in Ends, LockHost(e) PROVE IInv'
  <1>1. /\ denier = "nobody" /\ denier' = e /\ lockedAt' = now
        /\ UNCHANGED << now, disturbed, skew, conn, frames, app, lastUse >>
    BY DEF LockHost
  <1>2. TypeOK /\ TypeOK'
    BY <1>1 DEF IInv, TypeOK
  <1>3. LockHolds'
    BY <1>1, <1>2 DEF IInv, LockHolds, CutoffBound, TypeOK, Ends
  <1>4. ASSUME NEW q \in Ends PROVE CutHolds(q, conn[q], conn[Peer(q)], frames[Peer(q)])'
    <2>1. CutHolds(q, conn[q], conn[Peer(q)], frames[Peer(q)])
      BY DEF IInv, EndHolds
    <2> QED BY <1>1, <2>1 DEF CutHolds, AtMost, Steady
  <1> QED BY <1>1, <1>2, <1>3, <1>4, HostKeeps

\* Time passes, or a clock falls behind: fewer clocks are steady, and later.
LEMMA TimeKeeps ==
    ASSUME IInv, UNCHANGED << denier, lockedAt, conn, frames, app, lastUse >>,
           now' = now \/ now' = now + 1, skew' \in 0 .. MaxDisturbance,
           disturbed' \in [host : Ends \cup {"nobody"}, clock : {"none", "m", "w"}],
           \A q \in Ends, k \in {"m", "w"} : Steady(q, k)' => Steady(q, k)
    PROVE  IInv'
  <1>1. TypeOK /\ now \in Nat /\ now' \in Nat /\ now <= now' /\ lockedAt \in Nat /\ Start \in Nat
    <2>1. MaxDisturbance \in Nat
      BY LeaseBounds
    <2>2. TypeOK /\ now \in Nat /\ lockedAt \in Nat
      BY DEF IInv, TypeOK
    <2> QED BY <2>1, <2>2 DEF Start
  <1>2. TypeOK'
    <2>1. now' >= Start'
      BY <1>1 DEF TypeOK, Start
    <2> QED BY <1>1, <2>1 DEF TypeOK
  <1>3. LockHolds'
    BY <1>1 DEF IInv, LockHolds, CutoffBound
  <1>4. ASSUME NEW q \in Ends PROVE CutHolds(q, conn[q], conn[Peer(q)], frames[Peer(q)])'
    <2> DEFINE c == conn[q]
    <2>1. CutHolds(q, c, conn[Peer(q)], frames[Peer(q)])
      BY DEF IInv, EndHolds
    <2>2. c \in EndState /\ c.issued \in Time /\ c.lease \in Time /\ Lease[q] \in Nat
      BY Says DEF EndState
    <2>3. /\ c.issued.m \in Int /\ c.issued.w \in Int /\ c.lease.m \in Int /\ c.lease.w \in Int
          /\ (Steady(q, "m")' => Steady(q, "m")) /\ (Steady(q, "w")' => Steady(q, "w"))
      BY <2>2 DEF Time
    <2>4. conn' = conn /\ frames' = frames /\ denier' = denier /\ lockedAt' = lockedAt
      OBVIOUS
    <2> HIDE DEF c
    <2>5. c.err = "none" =>
            (Steady(q, "m")' => c.issued.m <= now') /\ (Steady(q, "w")' => c.issued.w <= now')
      BY <1>1, <2>1, <2>3 DEF CutHolds, AtMost
    <2>6. c.lease # Zero =>
            (Steady(q, "m")' => c.lease.m <= now' + Lease[q]) /\ (Steady(q, "w")' => c.lease.w <= now' + Lease[q])
      BY <1>1, <2>1, <2>2, <2>3 DEF CutHolds, AtMost
    <2>7. denier = Peer(q) =>
            /\ c.lease # Zero => (Steady(q, "m")' => c.lease.m <= lockedAt + Lease[q])
                                /\ (Steady(q, "w")' => c.lease.w <= lockedAt + Lease[q])
            /\ c.err = "none" /\ Unread(conn[Peer(q)], frames[Peer(q)], "grant") =>
                 (Steady(q, "m")' => c.issued.m <= lockedAt) /\ (Steady(q, "w")' => c.issued.w <= lockedAt)
      BY <2>1, <2>3 DEF CutHolds, AtMost
    <2> QED BY <2>4, <2>5, <2>6, <2>7 DEF CutHolds, AtMost, c
  <1> QED BY <1>2, <1>3, <1>4, HostKeeps

\* A clock that falls behind is the one that did before.
LEMMA DisturbFacts ==
    ASSUME IInv, NEW e \in Ends, NEW clock \in {"m", "w"}, Disturb(e, clock)
    PROVE  /\ skew' \in 0 .. MaxDisturbance
           /\ disturbed' \in [host : Ends \cup {"nobody"}, clock : {"none", "m", "w"}]
           /\ \A q \in Ends, k \in {"m", "w"} : Steady(q, k)' => Steady(q, k)
  <1>1. skew \in 0 .. MaxDisturbance /\ MaxDisturbance \in Nat
    BY LeaseBounds DEF IInv, TypeOK
  <1>2. skew' \in 0 .. MaxDisturbance
    BY <1>1 DEF Disturb
  <1>3. disturbed' = [host |-> e, clock |-> clock]
    BY DEF Disturb
  <1>4. ASSUME NEW q \in Ends, NEW k \in {"m", "w"}, disturbed = [host |-> q, clock |-> k]
        PROVE  disturbed' = disturbed
    <2>1. disturbed.host # "nobody"
      BY <1>4 DEF Ends
    <2>2. disturbed # [host |-> "nobody", clock |-> "none"]
      BY <2>1
    <2> QED BY <1>3, <2>2 DEF Disturb
  <1> QED BY <1>2, <1>3, <1>4 DEF Steady

\* The clocks.
LEMMA TickKeeps == ASSUME IInv, Tick PROVE IInv'
  <1>1. now' = now + 1 /\ UNCHANGED << denier, lockedAt, conn, frames, app, lastUse >>
    BY DEF Tick
  <1>2. CASE UNCHANGED << disturbed, skew >>
    <2>1. skew' \in 0 .. MaxDisturbance
          /\ disturbed' \in [host : Ends \cup {"nobody"}, clock : {"none", "m", "w"}]
      BY <1>2 DEF IInv, TypeOK
    <2>2. \A q \in Ends, k \in {"m", "w"} : Steady(q, k)' => Steady(q, k)
      BY <1>2 DEF Steady
    <2> QED BY <1>1, <2>1, <2>2, TimeKeeps
  <1>3. ASSUME NEW e \in Ends, Disturb(e, "m") PROVE IInv'
    BY <1>1, <1>3, DisturbFacts, TimeKeeps
  <1> QED BY <1>2, <1>3 DEF Tick

\* A wall clock is stepped back.
LEMMA StepBackKeeps == ASSUME IInv, NEW e \in Ends, StepBack(e) PROVE IInv'
  <1>1. now' = now /\ UNCHANGED << denier, lockedAt, conn, frames, app, lastUse >> /\ Disturb(e, "w")
    BY DEF StepBack
  <1> QED BY <1>1, DisturbFacts, TimeKeeps

\* One frame.
LEMMA OneFrame ==
    ASSUME NEW f \in Frame
    PROVE  << f >> \in Seq(Frame) /\ Elems(<< f >>) = {f}
           /\ \A k : (Has(<< f >>, k) <=> f.kind = k) /\ One(<< f >>, k)
  <1>1. DOMAIN << f >> = {1} /\ << f >>[1] = f
    OBVIOUS
  <1> QED BY <1>1 DEF Elems, Has, One

\* The handshake leaves each end with its first challenge queued.
LEMMA WrappedFacts ==
    ASSUME NEW e \in Ends, NEW d, d = Wrapped(e)
    PROVE  /\ d \in EndState /\ d.err = "none" /\ d.lease = Zero /\ d.pending /\ d.nonce = 1 /\ d.peerNonce = 0
           /\ d.issued = [m |-> Start, w |-> Start] /\ ~d.grantSent /\ ~d.ready /\ d.writes = 0
           /\ d.control = << Challenge(e, 1) >> /\ d.writing = NoFrame /\ ~d.sent
           /\ Challenge(e, 1) \in Frame
  <1> DEFINE start == [m |-> Start, w |-> Start]
  <1>1. Start \in Nat /\ Lease[e] \in Nat /\ Renew[e] \in Nat
    BY LeaseBounds DEF Start
  <1>2. start \in Time /\ Plus(start, Lease[e]) \in Time /\ Plus(start, Renew[e]) \in Time
    <2>1. start \in Time
      BY <1>1 DEF Time
    <2> QED BY <1>1, <2>1, PlusFacts
  <1>3. Challenge(e, 1) \in Frame /\ << Challenge(e, 1) >> \in Seq(Frame)
    BY <1>1 DEF Challenge, Frame
  <1>4. d = [NewConn EXCEPT !.initial = Plus(start, Lease[e]), !.issued = start,
                            !.next = Plus(start, Renew[e]), !.pending = TRUE,
                            !.nonce = 1, !.control = << Challenge(e, 1) >>]
    BY DEF Wrapped
  <1>5. Zero \in Time /\ NoFrame \in Frame
    BY DEF Time, Zero, Frame, NoFrame
  <1> HIDE DEF start
  <1>6. d \in EndState
    <2>1. NewConn \in EndState
      <3>1. << >> \in Seq(Frame)
        BY NoFrames
      <3> QED BY <1>5, <3>1 DEF NewConn, EndState
    <2>2. ASSUME NEW c \in EndState, NEW x \in Time, NEW y \in Time, NEW z \in Time, NEW q \in Seq(Frame)
          PROVE  [c EXCEPT !.initial = x, !.issued = y, !.next = z, !.pending = TRUE,
                           !.nonce = 1, !.control = q] \in EndState
      BY DEF EndState
    <2> DEFINE X == Plus(start, Lease[e])
               Z == Plus(start, Renew[e])
               Q == << Challenge(e, 1) >>
    <2>3. X \in Time /\ start \in Time /\ Z \in Time /\ Q \in Seq(Frame)
      BY <1>2, <1>3
    <2>4. d = [NewConn EXCEPT !.initial = X, !.issued = start, !.next = Z, !.pending = TRUE,
                              !.nonce = 1, !.control = Q]
      BY <1>4
    <2> HIDE DEF X, Z, Q
    <2>5. [NewConn EXCEPT !.initial = X, !.issued = start, !.next = Z, !.pending = TRUE,
                          !.nonce = 1, !.control = Q] \in EndState
      BY <2>1, <2>2, <2>3
    <2> QED BY <2>4, <2>5
  <1> QED BY <1>3, <1>4, <1>6 DEF NewConn, start

\* The invariant holds when the loops start.
LEMMA InitHolds == ASSUME LeaseInit PROVE IInv
  <1>1. /\ now = Start /\ denier = "nobody" /\ lockedAt = 0 /\ skew = 0 /\ lastUse = 0
        /\ disturbed = [host |-> "nobody", clock |-> "none"]
        /\ conn = [e \in Ends |-> Wrapped(e)] /\ frames = [e \in Ends |-> << >>]
        /\ app = [e \in Ends |-> [at |-> "wait", left |-> MaxBytes]]
    BY DEF LeaseInit
  <1>2. ASSUME NEW e \in Ends
        PROVE  /\ conn[e] = Wrapped(e) /\ frames[e] = << >> /\ app[e].at = "wait"
               /\ conn[e] \in EndState
    BY <1>1, <1>2, WrappedFacts
  <1>3. Start \in Nat /\ Start > 0 /\ MaxBytes \in Nat /\ MaxDisturbance \in Nat
    BY LeaseBounds DEF Start
  <1>4. TypeOK
    <2>1. conn \in [Ends -> EndState] /\ frames \in [Ends -> Seq(Frame)]
      BY <1>1, <1>2
    <2>2. /\ disturbed \in [host : Ends \cup {"nobody"}, clock : {"none", "m", "w"}]
          /\ app \in [Ends -> [at : {"wait", "dial", "hello", "open", "closed"}, left : Nat]]
      BY <1>1, <1>3
    <2> QED BY <1>1, <1>3, <2>1, <2>2 DEF TypeOK
  <1>5. LockHolds
    BY <1>1, <1>3 DEF LockHolds, CutoffBound
  <1>6. NoProtocolFault
    BY <1>2, WrappedFacts DEF NoProtocolFault
  <1>7. ASSUME NEW e \in Ends PROVE EndHolds(e)
    <2> DEFINE p == Peer(e)
               c == conn[e]
               o == conn[p]
               f == Challenge(e, 1)
               g == Challenge(p, 1)
    <2>1. p \in Ends /\ frames[e] = << >> /\ frames[p] = << >> /\ app[e].at = "wait"
      BY <1>2, Two
    <2>2. /\ c \in EndState /\ c.err = "none" /\ c.lease = Zero /\ c.pending /\ c.nonce = 1 /\ c.peerNonce = 0
          /\ c.issued = [m |-> Start, w |-> Start] /\ ~c.grantSent /\ ~c.ready /\ c.writes = 0
          /\ c.control = << f >> /\ c.writing = NoFrame /\ ~c.sent /\ f \in Frame
      BY <1>2, WrappedFacts
    <2>3. /\ o \in EndState /\ o.err = "none" /\ o.lease = Zero /\ o.peerNonce = 0 /\ ~o.grantSent
          /\ o.control = << g >> /\ o.writing = NoFrame /\ ~o.sent /\ g \in Frame
      BY <1>2, <2>1, WrappedFacts
    <2>4. /\ f.kind = "challenge" /\ f.nonce = 1 /\ f.span = Lease[e] /\ g.kind = "challenge"
          /\ NoFrame.kind = "none"
      BY DEF Challenge, NoFrame
    <2> HIDE DEF c, o, f, g
    <2>5. /\ Elems(c.control) = {f} /\ Elems(o.control) = {g}
          /\ \A k : (Has(c.control, k) <=> f.kind = k) /\ One(c.control, k)
          /\ \A k : (Has(o.control, k) <=> g.kind = k) /\ One(o.control, k)
      BY <2>2, <2>3, OneFrame
    <2>6. Stream(c, << >>) = {f, NoFrame} /\ Stream(o, << >>) = {g, NoFrame}
      BY <2>2, <2>3, <2>5, NoFrames DEF Stream
    <2>7. /\ Unread(c, << >>, "challenge") /\ ~Unread(o, << >>, "grant")
          /\ Once(c, << >>, "challenge") /\ Once(o, << >>, "grant")
      BY <2>2, <2>3, <2>4, <2>5, NoFrames DEF Unread, Unsent, Once
    <2>8. LoopsHold(c, << >>, app[e].at)
      BY <1>3, <2>1, <2>2, <2>4, <2>5, NoFrames DEF LoopsHold
    <2>9. Exchange(Lease[e], c, << >>, o, << >>)
      <3>1. Places(c, << >>, o, << >>)
        BY <2>7 DEF Places
      <3>2. Asks(Lease[e], c, << >>, o) /\ Answers(Lease[e], c, o, << >>)
        BY <2>2, <2>3, <2>4, <2>6 DEF Asks, Answers
      <3>3. Waits(c, << >>, o, << >>)
        BY <2>2, <2>3, <2>7 DEF Waits
      <3> QED BY <3>1, <3>2, <3>3 DEF Exchange
    <2>10. DataHolds(c, o, << >>)
      BY <2>2, <2>3, NoFrames DEF DataHolds, Behind, Granted
    <2>11. CutHolds(e, c, o, << >>)
      <3>1. denier # p
        BY <1>1, <2>1 DEF Ends
      <3> QED BY <1>1, <1>3, <2>2, <3>1 DEF CutHolds, AtMost
    <2> QED BY <2>1, <2>8, <2>9, <2>10, <2>11 DEF EndHolds, c, o
  <1> QED BY <1>4, <1>5, <1>6, <1>7 DEF IInv

\* Every step keeps the invariant.
LEMMA NextKeeps == ASSUME IInv, LeaseNext PROVE IInv'
  <1>1. ASSUME NEW e \in Ends, Loops(e) PROVE IInv'
    <2>1. CASE Stops(e)
      BY <2>1, StopKeeps DEF Stops, World
    <2> QED
      BY <1>1, <2>1, WatchRenewsKeeps, WriterTakesKeeps, WriterPutsKeeps, WriterRecordsKeeps,
         ReadControlKeeps, ReadDataKeeps, ReaderAdmitsKeeps, SessionReadyKeeps, SshDialedKeeps,
         AppReadsKeeps, AppWritesKeeps, SessionClosesKeeps
      DEF Loops, WriterLoop
  <1> QED BY <1>1, LockHostKeeps, StepBackKeeps, TickKeeps DEF LeaseNext

\* Nothing changes.
LEMMA StutterKeeps == ASSUME IInv, UNCHANGED leaseVars PROVE IInv'
  <1>1. /\ UNCHANGED << conn, frames, app >> /\ UNCHANGED << denier, lockedAt, lastUse >>
        /\ now' = now /\ UNCHANGED << disturbed, skew >>
    BY DEF leaseVars
  <1>2. skew' \in 0 .. MaxDisturbance
        /\ disturbed' \in [host : Ends \cup {"nobody"}, clock : {"none", "m", "w"}]
    BY <1>1 DEF IInv, TypeOK
  <1>3. \A q \in Ends, k \in {"m", "w"} : Steady(q, k)' => Steady(q, k)
    BY <1>1 DEF Steady
  <1> QED BY <1>1, <1>2, <1>3, TimeKeeps

\* Every state of a session satisfies the inductive invariant.
THEOREM Inductive == LeaseSpec => []IInv
  <1>1. LeaseInit => IInv
    BY InitHolds
  <1>2. IInv /\ [LeaseNext]_leaseVars => IInv'
    BY NextKeeps, StutterKeeps
  <1> QED BY <1>1, <1>2, PTL DEF LeaseSpec

\* The connections, streams, clocks and sessions have their types.
THEOREM TypeCorrect == LeaseSpec => []TypeOK
  <1>1. IInv => TypeOK
    BY DEF IInv
  <1> QED BY <1>1, Inductive, PTL

\* For any lease and renewal times, any delay or cut by the relay, and any
\* disturbance of one clock: an end hands over no DATA once its own lease
\* duration has passed since the other host locked (conn.go:174-176, 206-224,
\* 351-359), and neither end stops the other as a protocol offender
\* (conn.go:271-279, 393-408).
THEOREM LeaseTheorem == LeaseSpec => []LeaseHolds
  <1>1. IInv => LeaseHolds
    BY DEF IInv, LockHolds, LeaseHolds
  <1> QED BY <1>1, Inductive, PTL

\* Two ends that have sent and read every control are both ready: no wakeup is
\* lost between the writer that records a grant and the reader that takes one
\* (conn.go:240-245, 366, 461).
THEOREM StallTheorem == LeaseSpec => []NeverStalls
  <1>1. ASSUME IInv,
               \A e \in Ends : /\ conn[e].err = "none" /\ conn[e].writing = NoFrame
                               /\ conn[e].control = << >> /\ frames[e] = << >>
        PROVE  \A e \in Ends : conn[e].ready
    <2> SUFFICES ASSUME NEW e \in Ends PROVE conn[e].ready
      OBVIOUS
    <2> DEFINE p == Peer(e)
    <2>1. p \in Ends /\ Peer(p) = e
      BY Two
    <2>2. NoFrame.kind = "none"
      BY DEF NoFrame
    <2>3. ASSUME NEW q \in Ends
          PROVE  (\A k : k # "none" => ~Unread(conn[q], frames[q], k)) /\ ~conn[q].sent
      <3>1. LoopsHold(conn[q], frames[q], app[q].at)
        BY <1>1, Says
      <3> QED BY <1>1, <2>2, <3>1, NoFrames DEF Unread, Unsent, LoopsHold
    <2>4. ASSUME NEW q \in Ends PROVE conn[q].lease # Zero
      <3>1. /\ Exchange(Lease[q], conn[q], frames[q], conn[Peer(q)], frames[Peer(q)])
            /\ LoopsHold(conn[q], frames[q], app[q].at) /\ Peer(q) \in Ends
        BY <1>1, Says, Two
      <3>2. ~conn[q].pending
        BY <1>1, <2>3, <3>1 DEF Exchange, Waits
      <3> QED BY <1>1, <3>1, <3>2 DEF LoopsHold
    <2>5. DataHolds(conn[p], conn[e], frames[e]) /\ LoopsHold(conn[e], frames[e], app[e].at)
      BY <1>1, Says
    <2>6. Granted(conn[e])
      BY <1>1, <2>1, <2>4, <2>5 DEF DataHolds
    <2> QED BY <2>3, <2>4, <2>5, <2>6 DEF Granted, LoopsHold
  <1>2. IInv => NeverStalls
    BY <1>1 DEF NeverStalls
  <1> QED BY <1>2, Inductive, PTL

-----------------------------------------------------------------------------
\* Phases of a handler before its first frame was taken, and before REGISTERED.
Unserved == {"idle", "handshake", "preface"}
Unregistered == Unserved \cup {"registering"}

\* The types of what the two programs share.
RendezvousTyped ==
    /\ pc \in [Carrier -> Relay!Phases]
    /\ DOMAIN controls = Route
    /\ DOMAIN item = Carrier
    /\ pending \subseteq Carrier
    /\ resolved \in [Carrier -> SUBSET (Carrier \cup {None})]
    /\ connector \in [Carrier -> Carrier \cup {None}]
    /\ work \in [Conn!Key -> Conn!WorkPhases]
    /\ wire \in [Connectors -> Seq(Frames)]
    /\ ctlCarrier \in Connectors \cup {None}
    /\ legOf \in [Conn!Key -> Connectors \cup {None}]
    /\ ctl \in {"register", "serve"} => ctlCarrier # None

\* The item of client carrier c was opened on control k.
Names(c, k) == (item[c] # None \/ c \in pending) /\ item[c].control = k

\* An installed control is served for its own route; the control of an item is
\* installed or has ended.
ControlsLive ==
    /\ \A r \in Route : controls[r] # None =>
         /\ controls[r] \in Carrier
         /\ Identity[controls[r]].route = r
         /\ pc[controls[r]] = "control"
    /\ \A c \in Carrier, k \in Carrier : Names(c, k) => pc[k] \in {"control", "closed"}

\* Nothing is written before REGISTERED, REGISTERED is written once, and while the
\* connector waits for it no session has been opened on its control.
WireOrder ==
    /\ \A k \in Connectors : pc[k] \in Unregistered => wire[k] = <<>>
    /\ \A k \in Connectors : \A i \in 2 .. Len(wire[k]) : wire[k][i].type # "REGISTERED"
    /\ ctl = "register" /\ wire[ctlCarrier] # <<>> => wire[ctlCarrier][1].type = "REGISTERED"
    /\ ctl = "register" /\ wire[ctlCarrier] = <<>> =>
         /\ pc[ctlCarrier] \notin {"registered", "control"}
         /\ \A c \in Carrier : ~Names(c, ctlCarrier)
    /\ ctl = "serve" =>
         /\ epoch = ctlCarrier
         /\ pc[ctlCarrier] \notin Unregistered
         /\ \A i \in 1 .. Len(wire[ctlCarrier]) : wire[ctlCarrier][i].type # "REGISTERED"

\* Data connection d was dialed by the worker of s, or the worker that dialed it
\* has hung up and left.
Owned(s, d) ==
    \/ legOf[<<item[s].control, s>>] = d
    \/ d \in hungUp /\ \A w \in Conn!Key : legOf[w] # d

\* A data connection that was sent to a client, or that the client copies to, has
\* joined for good and is owned.
LegsOwned ==
    \A s \in Clients :
      /\ s \in pending => pc[s] \notin Unserved
      /\ pc[s] \in Unserved => resolved[s] = {} /\ connector[s] = None
      /\ \A d \in Carrier : d \in resolved[s] \/ d = connector[s] =>
           pc[d] = "joined" /\ item[s].control \in Connectors /\ Owned(s, d)

\* A worker dials a new connection, no two workers share one, and a worker that
\* leaves has hung up.
WorkersDial ==
    /\ \A w \in Conn!Key : legOf[w] # None =>
         /\ pc[legOf[w]] # "idle"
         /\ work[w] \in {"cancel", "ending"} => legOf[w] \in hungUp
    /\ \A w, x \in Conn!Key : legOf[w] # None /\ legOf[w] = legOf[x] => w = x

\* The inductive invariant of relay and connector together.
RendezvousInv == RendezvousTyped /\ ControlsLive /\ WireOrder /\ LegsOwned /\ WorkersDial

-----------------------------------------------------------------------------
\* The phases of a handler only advance.
Forward(p, q) ==
    /\ p # "joined"
    /\ q # "idle"
    /\ q \in Unserved => p \in Unserved
    /\ q \in Unregistered => p \in Unregistered
    /\ p \in {"control", "closed"} => q = "closed"
    /\ q \in {"registered", "control"} => p = "registered"

\* At most the handler of c moves, and it advances.
PhaseMoves(c) ==
    pc' = pc \/ \E q \in Relay!Phases : pc' = [pc EXCEPT ![c] = q] /\ Forward(pc[c], q)

\* The controls after the step are served, each for its own route.
ControlsKept ==
    /\ DOMAIN controls' = Route
    /\ \A r \in Route : controls'[r] # None =>
         /\ controls'[r] \in Carrier
         /\ Identity[controls'[r]].route = r
         /\ pc'[controls'[r]] = "control"

\* The step hands no data connection to a client but its own.
LegsKept ==
    /\ pending' \subseteq pending
    /\ resolved' \in [Carrier -> SUBSET (Carrier \cup {None})]
    /\ connector' \in [Carrier -> Carrier \cup {None}]
    /\ \A s \in Clients : pc[s] \in Unserved => resolved'[s] = resolved[s] /\ connector'[s] = connector[s]
    /\ \A s \in Clients, d \in Carrier : d \in resolved'[s] \/ d = connector'[s] =>
         \/ d \in resolved[s] \/ d = connector[s]
         \/ /\ pc'[d] = "joined"
            /\ item[s].control \in Connectors
            /\ legOf[<<item[s].control, s>>] = d

\* The step writes at most a frame for a session, on the control of its item.
WireKept ==
    \/ wire' = wire
    \/ \E x \in Carrier, f \in Frames :
         /\ Names(x, item[x].control)
         /\ f.type # "REGISTERED"
         /\ Put(item[x].control, f)

\* The connector does nothing.
ConnectorKept == UNCHANGED <<connVars, ctlCarrier, legOf, hungUp>>

\* None is no carrier; connectors and clients are carriers.
LEMMA NoneApart == None \notin Carrier /\ Connectors \subseteq Carrier /\ Clients \subseteq Carrier
  BY RendezvousAssumption DEF Connectors, Clients

\* What an advance of one handler leaves true of all phases.
LEMMA PhasesMoved ==
  ASSUME NEW c \in Carrier, pc \in [Carrier -> Relay!Phases], PhaseMoves(c)
  PROVE  /\ pc' \in [Carrier -> Relay!Phases]
         /\ \A x \in Carrier :
              /\ pc[x] = "joined" => pc'[x] = "joined"
              /\ pc'[x] = "idle" => pc[x] = "idle"
              /\ pc'[x] \in Unserved => pc[x] \in Unserved
              /\ pc'[x] \in Unregistered => pc[x] \in Unregistered
              /\ pc[x] \in {"control", "closed"} => pc'[x] \in {"control", "closed"}
              /\ pc'[x] \in {"registered", "control"} => pc[x] \in {"registered", "control"}
  <1>1. CASE pc' = pc BY <1>1
  <1>2. ASSUME NEW q \in Relay!Phases, pc' = [pc EXCEPT ![c] = q], Forward(pc[c], q)
        PROVE  /\ pc' \in [Carrier -> Relay!Phases]
               /\ \A x \in Carrier :
                    /\ pc[x] = "joined" => pc'[x] = "joined"
                    /\ pc'[x] = "idle" => pc[x] = "idle"
                    /\ pc'[x] \in Unserved => pc[x] \in Unserved
                    /\ pc'[x] \in Unregistered => pc[x] \in Unregistered
                    /\ pc[x] \in {"control", "closed"} => pc'[x] \in {"control", "closed"}
                    /\ pc'[x] \in {"registered", "control"} => pc[x] \in {"registered", "control"}
    <2>1. pc' \in [Carrier -> Relay!Phases] BY <1>2
    <2>2. ASSUME NEW x \in Carrier, x # c PROVE pc'[x] = pc[x] BY <1>2, <2>2
    <2>3. pc'[c] = q BY <1>2
    <2> QED BY <1>2, <2>1, <2>2, <2>3 DEF Forward, Unserved, Unregistered
  <1> QED BY <1>1, <1>2 DEF PhaseMoves

\* A frame written on a control is the last one of its wire.
LEMMA Appended ==
  ASSUME wire \in [Connectors -> Seq(Frames)], NEW k, NEW f \in Frames, Put(k, f)
  PROVE  /\ wire' \in [Connectors -> Seq(Frames)]
         /\ \A x \in Connectors : x # k => wire'[x] = wire[x]
         /\ k \in Connectors => /\ wire'[k] # <<>>
                                /\ Len(wire'[k]) = Len(wire[k]) + 1
                                /\ \A i \in 1 .. Len(wire[k]) : wire'[k][i] = wire[k][i]
                                /\ wire'[k][Len(wire[k]) + 1] = f
  <1>1. \A x \in Connectors : x # k => wire'[x] = wire[x] BY DEF Put
  <1>2. CASE k \in Connectors
    <2>1. wire[k] \in Seq(Frames) BY <1>2
    <2>2. wire'[k] = Append(wire[k], f) BY <1>2 DEF Put
    <2>3. Append(wire[k], f) \in Seq(Frames) BY <2>1
    <2>4. wire' \in [Connectors -> Seq(Frames)] BY <2>3 DEF Put
    <2>5. /\ Len(Append(wire[k], f)) = Len(wire[k]) + 1
          /\ \A i \in 1 .. Len(wire[k]) : Append(wire[k], f)[i] = wire[k][i]
          /\ Append(wire[k], f)[Len(wire[k]) + 1] = f
      BY <2>1
    <2>6. Append(wire[k], f) # <<>> BY <2>1, <2>5
    <2> QED BY <1>1, <2>2, <2>4, <2>5, <2>6
  <1>3. CASE k \notin Connectors
    <2>1. wire' = wire BY <1>3 DEF Put
    <2> QED BY <1>3, <2>1
  <1> QED BY <1>2, <1>3

\* Advancing handlers and frames for sessions keep the order of the wires.
LEMMA WireKeeps ==
  ASSUME RendezvousInv, NEW c \in Carrier, PhaseMoves(c), WireKept, ConnectorKept,
         item' = item, pending' \subseteq pending
  PROVE  WireOrder' /\ wire' \in [Connectors -> Seq(Frames)]
  <1> USE NoneApart
  <1>1. /\ \A x \in Carrier :
              /\ pc'[x] \in Unregistered => pc[x] \in Unregistered
              /\ pc'[x] \in {"registered", "control"} => pc[x] \in {"registered", "control"}
    BY PhasesMoved DEF RendezvousInv, RendezvousTyped
  <1>2. ctl' = ctl /\ ctlCarrier' = ctlCarrier /\ epoch' = epoch
    BY DEF ConnectorKept, connVars
  <1>3. \A x, k \in Carrier : Names(x, k)' => Names(x, k)
    BY DEF Names
  <1>4. WireOrder /\ RendezvousTyped /\ ControlsLive BY DEF RendezvousInv
  <1>t. ctl \in {"register", "serve"} => ctlCarrier \in Connectors /\ ctlCarrier \in Carrier
    BY <1>4 DEF RendezvousTyped
  <1>5. CASE wire' = wire
    <2>1. wire' \in [Connectors -> Seq(Frames)] BY <1>4, <1>5 DEF RendezvousTyped
    <2>2. WireOrder' BY <1>1, <1>2, <1>3, <1>4, <1>5, <1>t DEF WireOrder
    <2> QED BY <2>1, <2>2
  <1>6. ASSUME NEW x \in Carrier, NEW f \in Frames, NEW k, k = item[x].control,
               Names(x, k), f.type # "REGISTERED", Put(k, f)
        PROVE  WireOrder' /\ wire' \in [Connectors -> Seq(Frames)]
    <2>1. /\ wire' \in [Connectors -> Seq(Frames)]
          /\ \A y \in Connectors : y # k => wire'[y] = wire[y]
          /\ k \in Connectors => /\ wire'[k] # <<>>
                                 /\ Len(wire'[k]) = Len(wire[k]) + 1
                                 /\ \A i \in 1 .. Len(wire[k]) : wire'[k][i] = wire[k][i]
                                 /\ wire'[k][Len(wire[k]) + 1] = f
      BY <1>4, <1>6, Appended DEF RendezvousTyped
    <2>2. k \in Connectors => Len(wire[k]) \in Nat BY <1>4 DEF RendezvousTyped
    <2>3. k \in Connectors => pc[k] \in {"control", "closed"}
      BY <1>4, <1>6 DEF ControlsLive
    <2>4. \A y \in Connectors : pc'[y] \in Unregistered => wire'[y] = <<>>
      BY <1>1, <1>4, <2>1, <2>3 DEF WireOrder, Unregistered, Unserved
    <2>5. ASSUME NEW y \in Connectors, NEW i \in 2 .. Len(wire'[y])
          PROVE  wire'[y][i].type # "REGISTERED"
      <3>1. CASE y # k BY <1>4, <2>1, <3>1 DEF WireOrder
      <3>2. CASE y = k
        <4>1. CASE i = Len(wire[k]) + 1 BY <1>6, <2>1, <3>2, <4>1
        <4>2. CASE i # Len(wire[k]) + 1
          <5>1. i \in 2 .. Len(wire[k]) BY <2>1, <2>2, <3>2, <4>2
          <5> QED BY <1>4, <2>1, <2>2, <3>2, <5>1 DEF WireOrder
        <4> QED BY <4>1, <4>2
      <3> QED BY <3>1, <3>2
    <2>6. ctl = "register" /\ ctlCarrier = k => wire[k] # <<>>
      BY <1>4, <1>6, <1>t DEF WireOrder
    <2>7. ctl = "register" /\ ctlCarrier = k => wire'[k][1].type = "REGISTERED"
      <3> SUFFICES ASSUME ctl = "register", ctlCarrier = k PROVE wire'[k][1].type = "REGISTERED"
        OBVIOUS
      <3>1. k \in Connectors BY <1>t
      <3>2. wire[k] \in Seq(Frames) BY <1>4, <3>1 DEF RendezvousTyped
      <3>3. 1 \in 1 .. Len(wire[k]) BY <2>6, <3>2
      <3> QED BY <1>4, <2>1, <2>6, <3>1, <3>3 DEF WireOrder
    <2>8. (ctl = "register" /\ wire[ctlCarrier] # <<>> => wire[ctlCarrier][1].type = "REGISTERED")'
      BY <1>2, <1>4, <1>t, <2>1, <2>7 DEF WireOrder
    <2>9. (ctl = "register" /\ wire[ctlCarrier] = <<>> =>
             /\ pc[ctlCarrier] \notin {"registered", "control"}
             /\ \A z \in Carrier : ~Names(z, ctlCarrier))'
      BY <1>1, <1>2, <1>3, <1>4, <1>t, <2>1 DEF WireOrder
    <2>10. ASSUME ctl = "serve", NEW i \in 1 .. Len(wire'[ctlCarrier])
           PROVE  wire'[ctlCarrier][i].type # "REGISTERED"
      <3>1. CASE ctlCarrier # k BY <1>4, <1>t, <2>1, <2>10, <3>1 DEF WireOrder
      <3>2. CASE ctlCarrier = k
        <4>1. CASE i = Len(wire[k]) + 1 BY <1>6, <1>t, <2>1, <2>10, <3>2, <4>1
        <4>2. CASE i # Len(wire[k]) + 1
          <5>1. i \in 1 .. Len(wire[k]) BY <1>t, <2>1, <2>2, <2>10, <3>2, <4>2
          <5> QED BY <1>4, <1>t, <2>1, <2>10, <3>2, <5>1 DEF WireOrder
        <4> QED BY <4>1, <4>2
      <3> QED BY <3>1, <3>2
    <2>11. (ctl = "serve" =>
             /\ epoch = ctlCarrier
             /\ pc[ctlCarrier] \notin Unregistered
             /\ \A i \in 1 .. Len(wire[ctlCarrier]) : wire[ctlCarrier][i].type # "REGISTERED")'
      BY <1>1, <1>2, <1>4, <1>t, <2>10 DEF WireOrder
    <2> QED BY <2>1, <2>4, <2>5, <2>8, <2>9, <2>11 DEF WireOrder
  <1> QED BY <1>5, <1>6 DEF WireKept

\* A relay step that opens no session and registers no control.
RelayKept(c) ==
    /\ PhaseMoves(c)
    /\ ControlsKept
    /\ LegsKept
    /\ WireKept
    /\ ConnectorKept
    /\ item' = item

\* Such a step keeps the invariant.
LEMMA KeptInductive ==
  ASSUME RendezvousInv, NEW c \in Carrier, RelayKept(c)
  PROVE  RendezvousInv'
  <1> USE NoneApart
  <1>1. /\ pc' \in [Carrier -> Relay!Phases]
        /\ \A x \in Carrier :
              /\ pc[x] = "joined" => pc'[x] = "joined"
              /\ pc'[x] = "idle" => pc[x] = "idle"
              /\ pc'[x] \in Unserved => pc[x] \in Unserved
              /\ pc[x] \in {"control", "closed"} => pc'[x] \in {"control", "closed"}
    BY PhasesMoved DEF RendezvousInv, RendezvousTyped, RelayKept
  <1>2. WireOrder' /\ wire' \in [Connectors -> Seq(Frames)]
    BY WireKeeps DEF RelayKept, LegsKept
  <1>3. ctl' = ctl /\ ctlCarrier' = ctlCarrier /\ work' = work /\ legOf' = legOf /\ hungUp' = hungUp
    BY DEF RelayKept, ConnectorKept, connVars
  <1>4. RendezvousTyped /\ ControlsLive /\ LegsOwned /\ WorkersDial /\ item' = item
    BY DEF RendezvousInv, RelayKept
  <1>5. RendezvousTyped'
    BY <1>1, <1>2, <1>3, <1>4 DEF RendezvousTyped, RelayKept, ControlsKept, LegsKept
  <1>6. ControlsLive'
    <2>1. \A x, k \in Carrier : Names(x, k)' => Names(x, k)
      BY <1>4 DEF Names, RelayKept, LegsKept
    <2> QED BY <1>1, <1>4, <2>1 DEF ControlsLive, RelayKept, ControlsKept
  <1>7. LegsOwned'
    <2> SUFFICES ASSUME NEW s \in Clients PROVE
          /\ s \in pending' => pc'[s] \notin Unserved
          /\ pc'[s] \in Unserved => resolved'[s] = {} /\ connector'[s] = None
          /\ \A d \in Carrier : d \in resolved'[s] \/ d = connector'[s] =>
               pc'[d] = "joined" /\ item'[s].control \in Connectors /\ Owned(s, d)'
      BY DEF LegsOwned
    <2>1. s \in pending' => pc'[s] \notin Unserved
      BY <1>1, <1>4 DEF LegsOwned, RelayKept, LegsKept
    <2>2. pc'[s] \in Unserved => resolved'[s] = {} /\ connector'[s] = None
      BY <1>1, <1>4 DEF LegsOwned, RelayKept, LegsKept
    <2>3. ASSUME NEW d \in Carrier, d \in resolved'[s] \/ d = connector'[s]
          PROVE  pc'[d] = "joined" /\ item'[s].control \in Connectors /\ Owned(s, d)'
      <3>1. CASE d \in resolved[s] \/ d = connector[s]
        BY <1>1, <1>3, <1>4, <3>1 DEF LegsOwned, Owned
      <3>2. CASE ~(d \in resolved[s] \/ d = connector[s])
        BY <1>3, <1>4, <2>3, <3>2 DEF Owned, RelayKept, LegsKept
      <3> QED BY <3>1, <3>2
    <2> QED BY <2>1, <2>2, <2>3
  <1>8. WorkersDial'
    BY <1>1, <1>3, <1>4 DEF WorkersDial, RendezvousTyped
  <1> QED BY <1>2, <1>5, <1>6, <1>7, <1>8 DEF RendezvousInv

\* A step that leaves the tables of sessions alone hands over nothing.
LEMMA LegsStay ==
  ASSUME RendezvousInv, pending' = pending, resolved' = resolved, connector' = connector
  PROVE  LegsKept
  BY DEF LegsKept, RendezvousInv, RendezvousTyped

\* resolvePendingLocked with nil hands over nothing (service.go).
LEMMA LegsCancelled ==
  ASSUME RendezvousInv, NEW S \in SUBSET pending, Relay!ResolveAll(S, None),
         connector' = connector
  PROVE  LegsKept
  <1> USE NoneApart
  <1>1. RendezvousTyped /\ LegsOwned BY DEF RendezvousInv
  <1>2. /\ pending' = pending \ S
        /\ resolved' = [s \in Carrier |-> IF s \in S THEN resolved[s] \union {None} ELSE resolved[s]]
    BY DEF Relay!ResolveAll
  <1>3. resolved' \in [Carrier -> SUBSET (Carrier \cup {None})]
    BY <1>1, <1>2 DEF RendezvousTyped
  <1>4. \A s \in Clients : pc[s] \in Unserved => resolved'[s] = resolved[s]
    BY <1>1, <1>2 DEF LegsOwned
  <1>5. \A s \in Clients, d \in Carrier : d \in resolved'[s] => d \in resolved[s]
    BY <1>2
  <1> QED BY <1>1, <1>2, <1>3, <1>4, <1>5 DEF LegsKept, RendezvousTyped

\* A step of a handler that serves no control keeps the controls served.
LEMMA ControlsStay ==
  ASSUME RendezvousInv, controls' = controls, NEW c \in Carrier,
         pc' = pc \/ (pc[c] # "control" /\ \E q : pc' = [pc EXCEPT ![c] = q])
  PROVE  ControlsKept
  <1>1. \A x \in Carrier : pc[x] = "control" => pc'[x] = "control"
    BY DEF RendezvousInv, RendezvousTyped
  <1> QED BY <1>1 DEF ControlsKept, RendezvousInv, RendezvousTyped, ControlsLive

\* A step that only moves a handler.
Plain(c) ==
    /\ PhaseMoves(c)
    /\ pc' = pc \/ (pc[c] # "control" /\ \E q : pc' = [pc EXCEPT ![c] = q])
    /\ UNCHANGED <<controls, pending, item, resolved, connector>>

\* Such a step is one of RelayKept.
LEMMA PlainKept ==
  ASSUME RendezvousInv, NEW c \in Carrier, Plain(c), WireKept, ConnectorKept
  PROVE  RelayKept(c)
  BY LegsStay, ControlsStay DEF Plain, RelayKept

\* Accepting a carrier only moves a handler.
LEMMA AcceptPlain ==
  ASSUME NEW c \in Carrier, Relay!Accept(c) PROVE Plain(c)
  BY DEF Plain, PhaseMoves, Forward, Unserved, Unregistered, Relay!Phases, Relay!Accept,
         Relay!Goto, Relay!Return, Relay!TablesUnchanged

\* Outer authentication only moves a handler.
LEMMA AuthenticatedPlain ==
  ASSUME NEW c \in Carrier, Relay!Authenticated(c) PROVE Plain(c)
  BY DEF Plain, PhaseMoves, Forward, Unserved, Unregistered, Relay!Phases, Relay!Authenticated,
         Relay!Goto, Relay!TablesUnchanged

\* A rejection before the first frame only moves a handler.
LEMMA RejectPlain ==
  ASSUME NEW c \in Carrier, Relay!Reject(c) PROVE Plain(c)
  BY DEF Plain, PhaseMoves, Forward, Unserved, Unregistered, Relay!Phases, Relay!Reject,
         Relay!Goto, Relay!Return, Relay!TablesUnchanged

\* Taking CONTROL_REGISTER only moves a handler.
LEMMA ControlRegisterPlain ==
  ASSUME NEW c \in Carrier, Relay!ControlRegister(c) PROVE Plain(c)
  BY DEF Plain, PhaseMoves, Forward, Unserved, Unregistered, Relay!Phases, Relay!ControlRegister,
         Relay!Goto, Relay!TablesUnchanged

\* The write of OPEN only moves a handler.
LEMMA OpenWrittenPlain ==
  ASSUME NEW c \in Carrier, Relay!OpenWritten(c) PROVE Plain(c)
  BY DEF Plain, PhaseMoves, Forward, Unserved, Unregistered, Relay!Phases, Relay!OpenWritten,
         Relay!Goto, Relay!TablesUnchanged

\* The passing of a join deadline only moves a handler.
LEMMA JoinDeadlinePlain ==
  ASSUME NEW c \in Carrier, Relay!JoinDeadline(c) PROVE Plain(c)
  BY DEF Plain, PhaseMoves, Relay!JoinDeadline

\* The end of copyPair only moves a handler.
LEMMA EndCopyPlain ==
  ASSUME NEW c \in Carrier, Relay!EndCopy(c) PROVE Plain(c)
  BY DEF Plain, PhaseMoves, Forward, Unserved, Unregistered, Relay!Phases, Relay!EndCopy, Relay!Goto

\* An abort only moves a handler.
LEMMA AbortPlain ==
  ASSUME NEW c \in Carrier, Relay!Abort(c) PROVE Plain(c)
  BY DEF Plain, PhaseMoves, Relay!Abort

\* cancelPendingItem cancels its session or leaves it to the other resolution.
LEMMA CancelOrKept ==
  ASSUME RendezvousInv, NEW c \in Carrier, NEW phase \in {"discarding", "late"},
         pc[c] \in {"opening", "waiting"}, Relay!CancelOr(c, phase), WireKept, ConnectorKept
  PROVE  RelayKept(c)
  <1>1. item' = item /\ controls' = controls /\ connector' = connector
    BY DEF Relay!CancelOr
  <1>2. \E q \in {"closed", phase} : pc' = [pc EXCEPT ![c] = q]
    BY DEF Relay!CancelOr, Relay!Goto, Relay!Return
  <1>3. PhaseMoves(c)
    BY <1>2 DEF PhaseMoves, Forward, Unserved, Unregistered, Relay!Phases
  <1>4. ControlsKept BY <1>1, <1>2, ControlsStay
  <1>5. LegsKept
    <2>1. CASE c \in pending /\ Relay!ResolveAll({c}, None)
      <3>1. {c} \in SUBSET pending BY <2>1
      <3> QED BY <1>1, <2>1, <3>1, LegsCancelled
    <2>2. CASE UNCHANGED <<pending, resolved>> BY <1>1, <2>2, LegsStay
    <2> QED BY <2>1, <2>2 DEF Relay!CancelOr
  <1> QED BY <1>1, <1>3, <1>4, <1>5 DEF RelayKept

\* A client handler that takes its resolution, to copy or to discard it, keeps
\* the data connection it was sent.
LEMMA ReceiveKept ==
  ASSUME RendezvousInv, NEW c \in Carrier, WireKept, ConnectorKept,
         Relay!ReceiveResolution(c) \/ Relay!DiscardResolution(c)
  PROVE  RelayKept(c)
  <1> USE NoneApart
  <1>1. item' = item /\ controls' = controls /\ pending' = pending
    BY DEF Relay!ReceiveResolution, Relay!DiscardResolution
  <1>2. pc[c] \in {"waiting", "late", "discarding"}
    BY DEF Relay!ReceiveResolution, Relay!DiscardResolution
  <1>3. PICK leg \in resolved[c] :
           /\ resolved' = [resolved EXCEPT ![c] = {}]
           /\ connector' = connector \/ connector' = [connector EXCEPT ![c] = leg]
           /\ \E q \in {"closed", "copying", "finishing"} : pc' = [pc EXCEPT ![c] = q]
    BY DEF Relay!ReceiveResolution, Relay!DiscardResolution, Relay!Goto, Relay!Return
  <1>4. PhaseMoves(c)
    BY <1>2, <1>3 DEF PhaseMoves, Forward, Unserved, Unregistered, Relay!Phases
  <1>5. ControlsKept BY <1>1, <1>2, <1>3, ControlsStay
  <1>6. LegsKept
    <2>1. leg \in Carrier \cup {None} BY <1>3 DEF RendezvousInv, RendezvousTyped
    <2>2. /\ resolved' \in [Carrier -> SUBSET (Carrier \cup {None})]
          /\ connector' \in [Carrier -> Carrier \cup {None}]
      BY <1>3, <2>1 DEF RendezvousInv, RendezvousTyped
    <2>3. \A s \in Clients : pc[s] \in Unserved => resolved'[s] = resolved[s] /\ connector'[s] = connector[s]
      BY <1>2, <1>3 DEF RendezvousInv, RendezvousTyped, Unserved
    <2>4. \A s \in Clients, d \in Carrier : d \in resolved'[s] \/ d = connector'[s] =>
             d \in resolved[s] \/ d = connector[s]
      BY <1>3 DEF RendezvousInv, RendezvousTyped
    <2> QED BY <1>1, <2>2, <2>3, <2>4 DEF LegsKept
  <1> QED BY <1>1, <1>4, <1>5, <1>6 DEF RelayKept

\* finishActive lets go of the data connection.
LEMMA FinishKept ==
  ASSUME RendezvousInv, NEW c \in Carrier, WireKept, ConnectorKept, Relay!FinishActive(c)
  PROVE  RelayKept(c)
  <1> USE NoneApart
  <1>1. /\ item' = item /\ controls' = controls /\ pending' = pending /\ resolved' = resolved
        /\ pc[c] = "finishing" /\ pc' = [pc EXCEPT ![c] = "closed"]
        /\ connector' = [connector EXCEPT ![c] = None]
    BY DEF Relay!FinishActive, Relay!Return, Relay!Goto
  <1>2. PhaseMoves(c) BY <1>1 DEF PhaseMoves, Forward, Unserved, Unregistered, Relay!Phases
  <1>3. ControlsKept BY <1>1, ControlsStay
  <1>4. LegsKept
    <2>1. connector' \in [Carrier -> Carrier \cup {None}]
      BY <1>1 DEF RendezvousInv, RendezvousTyped
    <2>2. \A s \in Clients : pc[s] \in Unserved => connector'[s] = connector[s]
      BY <1>1 DEF RendezvousInv, RendezvousTyped, Unserved
    <2>3. \A s \in Clients, d \in Carrier : d = connector'[s] => d = connector[s]
      BY <1>1 DEF RendezvousInv, RendezvousTyped
    <2> QED BY <1>1, <2>1, <2>2, <2>3 DEF LegsKept, RendezvousInv, RendezvousTyped
  <1> QED BY <1>1, <1>2, <1>3, <1>4 DEF RelayKept

\* installControl puts a registered control in place of the old one.
LEMMA InstallKept ==
  ASSUME RendezvousInv, NEW c \in Carrier, WireKept, ConnectorKept, Relay!InstallControl(c)
  PROVE  RelayKept(c)
  <1> USE NoneApart
  <1>1. /\ item' = item /\ connector' = connector
        /\ pc[c] = "registered" /\ pc' = [pc EXCEPT ![c] = "control"]
        /\ controls' = [controls EXCEPT ![Identity[c].route] = c]
        /\ \E S \in SUBSET pending : Relay!ResolveAll(S, None)
    <2>1. \A k : Relay!HeldBy(k) \in SUBSET pending BY DEF Relay!HeldBy
    <2> QED BY <2>1 DEF Relay!InstallControl, Relay!Goto
  <1>2. PhaseMoves(c) BY <1>1 DEF PhaseMoves, Forward, Unserved, Unregistered, Relay!Phases
  <1>3. ControlsKept
    <2>1. \A x \in Carrier : pc[x] = "control" => pc'[x] = "control"
      BY <1>1 DEF RendezvousInv, RendezvousTyped
    <2>2. pc'[c] = "control" BY <1>1 DEF RendezvousInv, RendezvousTyped
    <2> QED BY <1>1, <2>1, <2>2 DEF ControlsKept, RendezvousInv, RendezvousTyped, ControlsLive
  <1>4. LegsKept BY <1>1, LegsCancelled
  <1> QED BY <1>1, <1>2, <1>3, <1>4 DEF RelayKept

\* CANCEL of the connector cancels at most one session.
LEMMA CancelKept ==
  ASSUME RendezvousInv, NEW c \in Carrier, NEW s, WireKept, ConnectorKept,
         Relay!ControlCancel(c, s)
  PROVE  RelayKept(c)
  <1>1. /\ item' = item /\ connector' = connector /\ pc' = pc /\ controls' = controls
        /\ Relay!ResolveAll(Relay!HeldBy(c) \intersect {s}, None)
    BY DEF Relay!ControlCancel
  <1>2. Relay!HeldBy(c) \intersect {s} \in SUBSET pending BY DEF Relay!HeldBy
  <1>3. LegsKept BY <1>1, <1>2, LegsCancelled
  <1>4. ControlsKept BY <1>1, ControlsStay
  <1> QED BY <1>1, <1>3, <1>4 DEF RelayKept, PhaseMoves

\* removeControl removes the control it ends.
LEMMA EndsKept ==
  ASSUME RendezvousInv, NEW c \in Carrier, WireKept, ConnectorKept, Relay!ControlEnds(c)
  PROVE  RelayKept(c)
  <1> USE NoneApart
  <1>1. /\ item' = item /\ connector' = connector
        /\ pc[c] = "control" /\ pc' = [pc EXCEPT ![c] = "closed"]
        /\ controls' = [controls EXCEPT ![Identity[c].route] =
                          IF controls[Identity[c].route] = c THEN None ELSE @]
        /\ \E S \in SUBSET pending : Relay!ResolveAll(S, None)
    <2>1. Relay!HeldBy(c) \in SUBSET pending /\ {} \in SUBSET pending BY DEF Relay!HeldBy
    <2> QED BY <2>1 DEF Relay!ControlEnds, Relay!Goto, Relay!Return
  <1>2. PhaseMoves(c) BY <1>1 DEF PhaseMoves, Forward, Unserved, Unregistered, Relay!Phases
  <1>3. ControlsKept
    <2>1. \A x \in Carrier : x # c => pc'[x] = pc[x]
      BY <1>1 DEF RendezvousInv, RendezvousTyped
    <2>2. DOMAIN controls' = Route BY <1>1 DEF RendezvousInv, RendezvousTyped
    <2>3. ASSUME NEW r \in Route, controls'[r] # None
          PROVE  controls'[r] = controls[r] /\ controls[r] # c
      <3>1. CASE r = Identity[c].route
        BY <1>1, <2>3, <3>1 DEF RendezvousInv, RendezvousTyped
      <3>2. CASE r # Identity[c].route
        BY <1>1, <2>3, <3>2 DEF RendezvousInv, RendezvousTyped, ControlsLive
      <3> QED BY <3>1, <3>2
    <2> QED BY <2>1, <2>2, <2>3 DEF ControlsKept, RendezvousInv, ControlsLive
  <1>4. LegsKept BY <1>1, LegsCancelled
  <1> QED BY <1>1, <1>2, <1>3, <1>4 DEF RelayKept

\* joinData hands a worker's connection to the client the worker was started for.
LEMMA JoinKept ==
  ASSUME RendezvousInv, NEW w \in Conn!Key, JoinArrives(w)
  PROVE  RelayKept(legOf[w])
  <1> USE NoneApart
  <1>1. PICK d : d = legOf[w] OBVIOUS
  <1>2. d \in Connectors /\ d \in Carrier /\ d # None
    BY <1>1 DEF JoinArrives, RendezvousInv, RendezvousTyped
  <1>3. Relay!DataJoin(d, w[1], w[2]) /\ wire' = wire /\ ConnectorKept
    BY <1>1 DEF JoinArrives, ConnectorKept
  <1>4. WireKept BY <1>3 DEF WireKept
  <1>5. pc[d] = "preface" /\ item' = item /\ controls' = controls /\ connector' = connector
    BY <1>3 DEF Relay!DataJoin
  <1>6. CASE ~Relay!MayJoin(d, w[1], w[2])
    <2>1. UNCHANGED <<pending, resolved>> /\ pc' = [pc EXCEPT ![d] = "closed"]
      BY <1>3, <1>6 DEF Relay!DataJoin, Relay!Return, Relay!Goto
    <2>2. Plain(d)
      BY <1>5, <2>1 DEF Plain, PhaseMoves, Forward, Unserved, Unregistered, Relay!Phases
    <2> QED BY <1>1, <1>2, <1>3, <1>4, <2>2, PlainKept
  <1>7. CASE Relay!MayJoin(d, w[1], w[2])
    <2>1. pc' = [pc EXCEPT ![d] = "joined"] /\ Relay!ResolveAll({w[2]}, d)
      BY <1>3, <1>7 DEF Relay!DataJoin, Relay!Goto
    <2>2. w[2] \in pending /\ item[w[2]].control = w[1]
      BY <1>7 DEF Relay!MayJoin
    <2>3. w[1] \in Connectors /\ w[2] \in Clients /\ w = <<w[1], w[2]>>
      BY DEF Conn!Key
    <2>4. /\ pending' = pending \ {w[2]}
          /\ resolved' = [s \in Carrier |-> IF s \in {w[2]} THEN resolved[s] \union {d} ELSE resolved[s]]
      BY <2>1 DEF Relay!ResolveAll
    <2>5. PhaseMoves(d)
      BY <1>5, <2>1 DEF PhaseMoves, Forward, Unserved, Unregistered, Relay!Phases
    <2>6. ControlsKept BY <1>2, <1>5, <2>1, ControlsStay
    <2>7. LegsKept
      <3>1. resolved' \in [Carrier -> SUBSET (Carrier \cup {None})]
        BY <1>2, <2>4 DEF RendezvousInv, RendezvousTyped
      <3>2. \A s \in Clients : pc[s] \in Unserved => resolved'[s] = resolved[s]
        BY <2>2, <2>4 DEF RendezvousInv, LegsOwned
      <3>3. pc'[d] = "joined" BY <1>2, <2>1 DEF RendezvousInv, RendezvousTyped
      <3>4. item[w[2]].control \in Connectors /\ legOf[<<item[w[2]].control, w[2]>>] = d
        BY <1>1, <2>2, <2>3
      <3>5. ASSUME NEW s \in Clients, NEW e \in Carrier, e \in resolved'[s]
            PROVE  e \in resolved[s] \/ (s = w[2] /\ e = d)
        BY <2>4, <3>5
      <3> QED BY <1>5, <2>4, <3>1, <3>2, <3>3, <3>4, <3>5
             DEF LegsKept, RendezvousInv, RendezvousTyped
    <2> QED BY <1>1, <1>3, <1>4, <1>5, <2>5, <2>6, <2>7 DEF RelayKept
  <1> QED BY <1>6, <1>7

\* ClientOpen names the installed control, which REGISTERED has been written to.
LEMMA OpenInductive ==
  ASSUME RendezvousInv, NEW c \in Carrier, NEW r \in Route, Relay!ClientOpen(c, r),
         wire' = wire, ConnectorKept
  PROVE  RendezvousInv'
  <1> USE NoneApart
  <1>1. CASE ~Relay!MayPend(Identity[c].name, r)
    <2>1. Plain(c)
      BY <1>1 DEF Relay!ClientOpen, Relay!Return, Relay!Goto, Plain, PhaseMoves, Forward,
                  Unserved, Unregistered, Relay!Phases
    <2>2. WireKept BY DEF WireKept
    <2> QED BY <2>1, <2>2, PlainKept, KeptInductive
  <1>2. CASE Relay!MayPend(Identity[c].name, r)
    <2>0. RendezvousTyped /\ ControlsLive /\ WireOrder /\ LegsOwned /\ WorkersDial
      BY DEF RendezvousInv
    <2>1. PICK k : k = controls[r] OBVIOUS
    <2>2. k # None /\ k \in Carrier /\ pc[k] = "control"
      BY <1>2, <2>0, <2>1 DEF Relay!MayPend, ControlsLive
    <2>3. PICK x : x = [route |-> r, control |-> k, pin |-> Identity[k].pin, name |-> Identity[c].name]
      OBVIOUS
    <2>4. x.control = k BY <2>3
    <2>5. /\ pc[c] = "preface" /\ pc' = [pc EXCEPT ![c] = "opening"]
          /\ pending' = pending \union {c}
          /\ item' = [item EXCEPT ![c] = x]
          /\ controls' = controls /\ resolved' = resolved /\ connector' = connector
      BY <1>2, <2>1, <2>3 DEF Relay!ClientOpen, Relay!Goto
    <2>6. ctl' = ctl /\ epoch' = epoch /\ ctlCarrier' = ctlCarrier /\ work' = work
          /\ legOf' = legOf /\ hungUp' = hungUp
      BY DEF ConnectorKept, connVars
    <2>7. /\ pc' \in [Carrier -> Relay!Phases]
          /\ pc'[c] = "opening"
          /\ \A y \in Carrier : y # c => pc'[y] = pc[y]
      BY <2>0, <2>5 DEF RendezvousTyped, Relay!Phases
    <2>8. /\ DOMAIN item' = Carrier
          /\ item'[c] = x
          /\ \A y \in Carrier : y # c => item'[y] = item[y]
      BY <2>0, <2>5 DEF RendezvousTyped
    <2>9. \A y \in Carrier, l \in Carrier : Names(y, l)' => Names(y, l) \/ l = k
      BY <2>4, <2>5, <2>8 DEF Names
    <2>10. k # c /\ pc'[k] = "control" BY <2>2, <2>5, <2>7
    <2>11. RendezvousTyped'
      BY <2>0, <2>5, <2>6, <2>7, <2>8 DEF RendezvousTyped
    <2>12. ControlsLive'
      BY <2>0, <2>5, <2>7, <2>9, <2>10 DEF ControlsLive
    <2>13. WireOrder'
      <3>1. ctl \in {"register", "serve"} => ctlCarrier \in Connectors /\ ctlCarrier \in Carrier
        BY <2>0 DEF RendezvousTyped
      <3>2. \A y \in Carrier : /\ pc'[y] \in Unregistered => pc[y] \in Unregistered
                               /\ pc'[y] \in {"registered", "control"} => pc[y] \in {"registered", "control"}
        BY <2>7 DEF Unregistered, Unserved
      <3>3. ctl = "register" /\ wire[ctlCarrier] = <<>> => ctlCarrier # k
        BY <2>0, <2>2 DEF WireOrder
      <3> QED BY <2>0, <2>6, <2>9, <3>1, <3>2, <3>3 DEF WireOrder
    <2>14. LegsOwned'
      <3> SUFFICES ASSUME NEW s \in Clients PROVE
            /\ s \in pending' => pc'[s] \notin Unserved
            /\ pc'[s] \in Unserved => resolved'[s] = {} /\ connector'[s] = None
            /\ \A d \in Carrier : d \in resolved'[s] \/ d = connector'[s] =>
                 pc'[d] = "joined" /\ item'[s].control \in Connectors /\ Owned(s, d)'
        BY DEF LegsOwned
      <3>1. CASE s = c
        <4>1. resolved[s] = {} /\ connector[s] = None
          BY <2>0, <2>5, <3>1 DEF LegsOwned, Unserved
        <4> QED BY <2>5, <2>7, <3>1, <4>1 DEF Unserved
      <3>2. CASE s # c
        <4>1. \A d \in Carrier : pc[d] = "joined" => pc'[d] = "joined" BY <2>5, <2>7
        <4> QED BY <2>0, <2>5, <2>6, <2>7, <2>8, <3>2, <4>1 DEF LegsOwned, Owned
      <3> QED BY <3>1, <3>2
    <2>15. WorkersDial'
      <3>1. \A y \in Carrier : pc'[y] = "idle" => pc[y] = "idle" BY <2>7
      <3> QED BY <2>0, <2>6, <3>1 DEF WorkersDial, RendezvousTyped
    <2> QED BY <2>11, <2>12, <2>13, <2>14, <2>15 DEF RendezvousInv
  <1> QED BY <1>1, <1>2

\* REGISTERED is the first frame of its wire.
LEMMA RegisterInductive ==
  ASSUME RendezvousInv, NEW k \in Connectors, RelayRegisters(k)
  PROVE  RendezvousInv'
  <1> USE NoneApart
  <1>0. RendezvousTyped /\ ControlsLive /\ WireOrder /\ LegsOwned /\ WorkersDial
    BY DEF RendezvousInv
  <1>1. /\ pc[k] = "registering" /\ pc' = [pc EXCEPT ![k] = "registered"]
        /\ UNCHANGED <<controls, item, pending, resolved, connector>>
    BY DEF RelayRegisters, Relay!RegisterWritten, Relay!Goto, Relay!TablesUnchanged
  <1>2. ctl' = ctl /\ epoch' = epoch /\ ctlCarrier' = ctlCarrier /\ work' = work
        /\ legOf' = legOf /\ hungUp' = hungUp
    BY DEF RelayRegisters, connVars
  <1>3. RegisteredFrame \in Frames /\ RegisteredFrame.type = "REGISTERED"
    BY DEF RegisteredFrame, Frames
  <1>4. /\ wire' \in [Connectors -> Seq(Frames)]
        /\ \A x \in Connectors : x # k => wire'[x] = wire[x]
        /\ wire'[k] # <<>>
        /\ Len(wire'[k]) = Len(wire[k]) + 1
        /\ wire'[k][Len(wire[k]) + 1] = RegisteredFrame
    <2>1. Put(k, RegisteredFrame) BY DEF RelayRegisters
    <2> QED BY <1>0, <1>3, <2>1, Appended DEF RendezvousTyped
  <1>5. wire[k] = <<>> /\ Len(wire[k]) = 0
    BY <1>0, <1>1 DEF WireOrder, Unregistered
  <1>6. Len(wire'[k]) = 1 /\ wire'[k][1].type = "REGISTERED" BY <1>3, <1>4, <1>5
  <1>7. /\ pc' \in [Carrier -> Relay!Phases]
        /\ pc'[k] = "registered"
        /\ \A y \in Carrier : y # k => pc'[y] = pc[y]
    BY <1>0, <1>1 DEF RendezvousTyped, Relay!Phases
  <1>8. \A x, y \in Carrier : Names(x, y)' <=> Names(x, y) BY <1>1 DEF Names
  <1>9. RendezvousTyped' BY <1>0, <1>1, <1>2, <1>4, <1>7 DEF RendezvousTyped
  <1>10. ControlsLive' BY <1>0, <1>1, <1>7, <1>8 DEF ControlsLive
  <1>11. WireOrder'
    <2>1. ctl \in {"register", "serve"} => ctlCarrier \in Connectors /\ ctlCarrier \in Carrier
      BY <1>0 DEF RendezvousTyped
    <2>2. ctl = "serve" => ctlCarrier # k BY <1>0, <1>1 DEF WireOrder, Unregistered
    <2>3. \A y \in Connectors : pc'[y] \in Unregistered => wire'[y] = <<>>
      BY <1>0, <1>4, <1>7 DEF WireOrder, Unregistered, Unserved
    <2>4. \A y \in Connectors : \A i \in 2 .. Len(wire'[y]) : wire'[y][i].type # "REGISTERED"
      BY <1>0, <1>4, <1>6 DEF WireOrder
    <2>5. (ctl = "register" /\ wire[ctlCarrier] # <<>> => wire[ctlCarrier][1].type = "REGISTERED")'
      BY <1>0, <1>2, <1>4, <1>6, <2>1 DEF WireOrder
    <2>6. (ctl = "register" /\ wire[ctlCarrier] = <<>> =>
             /\ pc[ctlCarrier] \notin {"registered", "control"}
             /\ \A z \in Carrier : ~Names(z, ctlCarrier))'
      <3>1. CASE ctlCarrier = k BY <1>2, <1>4, <3>1
      <3>2. CASE ctlCarrier # k
        BY <1>0, <1>2, <1>4, <1>7, <1>8, <2>1, <3>2 DEF WireOrder
      <3> QED BY <3>1, <3>2
    <2>7. (ctl = "serve" =>
             /\ epoch = ctlCarrier
             /\ pc[ctlCarrier] \notin Unregistered
             /\ \A i \in 1 .. Len(wire[ctlCarrier]) : wire[ctlCarrier][i].type # "REGISTERED")'
      BY <1>0, <1>2, <1>4, <1>7, <2>1, <2>2 DEF WireOrder
    <2> QED BY <2>3, <2>4, <2>5, <2>6, <2>7 DEF WireOrder
  <1>12. LegsOwned'
    <2>1. \A d \in Carrier : /\ pc[d] = "joined" => pc'[d] = "joined"
                             /\ pc'[d] \in Unserved => pc[d] \in Unserved
      BY <1>1, <1>7 DEF Unserved
    <2> QED BY <1>0, <1>1, <1>2, <2>1 DEF LegsOwned, Owned
  <1>13. WorkersDial'
    <2>1. \A y \in Carrier : pc'[y] = "idle" => pc[y] = "idle" BY <1>7
    <2> QED BY <1>0, <1>2, <2>1 DEF WorkersDial, RendezvousTyped
  <1> QED BY <1>9, <1>10, <1>11, <1>12, <1>13 DEF RendezvousInv

\* The control loop dials a new carrier.
LEMMA DialControlInductive ==
  ASSUME RendezvousInv, NEW k \in Connectors, DialControl(k)
  PROVE  RendezvousInv'
  <1> USE NoneApart
  <1>0. RendezvousTyped /\ ControlsLive /\ WireOrder /\ LegsOwned /\ WorkersDial
    BY DEF RendezvousInv
  <1>1. Plain(k) BY AcceptPlain DEF DialControl
  <1>2. PhaseMoves(k) /\ UNCHANGED <<controls, item, pending, resolved, connector>>
    BY <1>1 DEF Plain
  <1>3. /\ pc' \in [Carrier -> Relay!Phases]
        /\ \A x \in Carrier :
              /\ pc[x] = "joined" => pc'[x] = "joined"
              /\ pc'[x] = "idle" => pc[x] = "idle"
              /\ pc'[x] \in Unserved => pc[x] \in Unserved
              /\ pc'[x] \in Unregistered => pc[x] \in Unregistered
              /\ pc[x] \in {"control", "closed"} => pc'[x] \in {"control", "closed"}
    BY <1>0, <1>2, PhasesMoved DEF RendezvousTyped
  <1>4. ControlsKept BY <1>1, ControlsStay DEF Plain
  <1>5. ctl = "connect" /\ ctl' = ctl /\ ctlCarrier' = k /\ work' = work /\ wire' = wire
        /\ legOf' = legOf /\ hungUp' = hungUp
    BY DEF DialControl, connVars
  <1>6. RendezvousTyped' BY <1>0, <1>2, <1>3, <1>5 DEF RendezvousTyped
  <1>7. ControlsLive'
    <2>1. \A x, y \in Carrier : Names(x, y)' <=> Names(x, y) BY <1>2 DEF Names
    <2> QED BY <1>0, <1>3, <1>4, <2>1 DEF ControlsLive, ControlsKept
  <1>8. WireOrder' BY <1>0, <1>3, <1>5 DEF WireOrder
  <1>9. LegsOwned' BY <1>0, <1>2, <1>3, <1>5 DEF LegsOwned, Owned
  <1>10. WorkersDial' BY <1>0, <1>3, <1>5 DEF WorkersDial, RendezvousTyped
  <1> QED BY <1>6, <1>7, <1>8, <1>9, <1>10 DEF RendezvousInv

\* A worker dials a carrier that no client has been handed and no worker has.
LEMMA DialDataInductive ==
  ASSUME RendezvousInv, NEW w \in Conn!Key, NEW d \in Connectors, DialData(w, d)
  PROVE  RendezvousInv'
  <1> USE NoneApart
  <1>0. RendezvousTyped /\ ControlsLive /\ WireOrder /\ LegsOwned /\ WorkersDial
    BY DEF RendezvousInv
  <1>1. Plain(d) BY AcceptPlain DEF DialData
  <1>2. PhaseMoves(d) /\ UNCHANGED <<controls, item, pending, resolved, connector>>
    BY <1>1 DEF Plain
  <1>3. /\ pc' \in [Carrier -> Relay!Phases]
        /\ \A x \in Carrier :
              /\ pc[x] = "joined" => pc'[x] = "joined"
              /\ pc'[x] = "idle" => pc[x] = "idle"
              /\ pc'[x] \in Unserved => pc[x] \in Unserved
              /\ pc'[x] \in Unregistered => pc[x] \in Unregistered
              /\ pc[x] \in {"control", "closed"} => pc'[x] \in {"control", "closed"}
              /\ pc'[x] \in {"registered", "control"} => pc[x] \in {"registered", "control"}
    BY <1>0, <1>2, PhasesMoved DEF RendezvousTyped
  <1>4. ControlsKept BY <1>1, ControlsStay DEF Plain
  <1>5. ctl' = ctl /\ ctlCarrier' = ctlCarrier /\ epoch' = epoch /\ work' = work
        /\ wire' = wire /\ hungUp' = hungUp /\ legOf' = [legOf EXCEPT ![w] = d]
        /\ work[w] = "dial" /\ legOf[w] = None /\ pc[d] = "idle"
    BY DEF DialData, connVars, Fresh
  <1>6. pc'[d] # "idle"
    BY <1>0 DEF DialData, Relay!Accept, Relay!Goto, Relay!Return, RendezvousTyped
  <1>7. /\ legOf' \in [Conn!Key -> Connectors \cup {None}]
        /\ legOf'[w] = d
        /\ \A x \in Conn!Key : x # w => legOf'[x] = legOf[x]
    BY <1>0, <1>5 DEF RendezvousTyped
  <1>8. \A x, y \in Carrier : Names(x, y)' <=> Names(x, y) BY <1>2 DEF Names
  <1>9. RendezvousTyped' BY <1>0, <1>2, <1>3, <1>5, <1>7 DEF RendezvousTyped
  <1>10. ControlsLive' BY <1>0, <1>3, <1>4, <1>8 DEF ControlsLive, ControlsKept
  <1>11. WireOrder'
    <2>1. ctl \in {"register", "serve"} => ctlCarrier \in Connectors /\ ctlCarrier \in Carrier
      BY <1>0 DEF RendezvousTyped
    <2> QED BY <1>0, <1>3, <1>5, <1>8, <2>1 DEF WireOrder
  <1>12. LegsOwned'
    <2>1. ASSUME NEW s \in Clients, NEW e \in Carrier, e \in resolved[s] \/ e = connector[s]
          PROVE  Owned(s, e)'
      <3>1. pc[e] = "joined" /\ item[s].control \in Connectors /\ Owned(s, e)
        BY <1>0, <2>1 DEF LegsOwned
      <3>2. e # d BY <1>5, <3>1
      <3>3. <<item[s].control, s>> \in Conn!Key BY <3>1 DEF Conn!Key
      <3>4. CASE legOf[<<item[s].control, s>>] = e
        BY <1>2, <1>5, <1>7, <3>3, <3>4 DEF Owned
      <3>5. CASE e \in hungUp /\ \A x \in Conn!Key : legOf[x] # e
        BY <1>5, <1>7, <3>2, <3>5 DEF Owned
      <3> QED BY <3>1, <3>4, <3>5 DEF Owned
    <2> QED BY <1>0, <1>2, <1>3, <2>1 DEF LegsOwned
  <1>13. WorkersDial'
    <2>1. \A x \in Conn!Key : x # w => legOf[x] # d
      BY <1>0, <1>5 DEF WorkersDial
    <2>2. \A x \in Conn!Key : legOf'[x] # None =>
            /\ pc'[legOf'[x]] # "idle"
            /\ work'[x] \in {"cancel", "ending"} => legOf'[x] \in hungUp'
      BY <1>0, <1>3, <1>5, <1>6, <1>7 DEF WorkersDial, RendezvousTyped
    <2>3. \A x, y \in Conn!Key : legOf'[x] # None /\ legOf'[x] = legOf'[y] => x = y
      BY <1>0, <1>7, <2>1 DEF WorkersDial
    <2> QED BY <2>2, <2>3 DEF WorkersDial
  <1> QED BY <1>9, <1>10, <1>11, <1>12, <1>13 DEF RendezvousInv

-----------------------------------------------------------------------------
\* The relay does nothing.
RelayIdle == UNCHANGED relayVars

\* What the connector does not touch stays true, whatever it closes.
LEMMA ConnectorKeeps ==
  ASSUME RendezvousInv, RelayIdle, legOf' = legOf, hungUp \subseteq hungUp',
         \A w \in Conn!Key : work'[w] \in {"cancel", "ending"} =>
            work[w] \in {"cancel", "ending"} \/ legOf[w] \in hungUp' \cup {None}
  PROVE  ControlsLive' /\ LegsOwned' /\ WorkersDial'
  <1>0. ControlsLive /\ LegsOwned /\ WorkersDial BY DEF RendezvousInv
  <1>1. UNCHANGED <<pc, controls, item, pending, resolved, connector>>
    BY DEF RelayIdle, relayVars
  <1>2. ControlsLive' BY <1>0, <1>1 DEF ControlsLive, Names
  <1>3. LegsOwned' BY <1>0, <1>1 DEF LegsOwned, Owned
  <1>4. WorkersDial' BY <1>0, <1>1 DEF WorkersDial
  <1> QED BY <1>2, <1>3, <1>4

\* On a control that was just connected nothing has been written.
LEMMA ConnRegistersInductive ==
  ASSUME RendezvousInv, ConnRegisters
  PROVE  RendezvousInv'
  <1> USE NoneApart
  <1>0. RendezvousTyped /\ ControlsLive /\ WireOrder BY DEF RendezvousInv
  <1>1. /\ ctl' = "register" /\ work' = work /\ wire' = wire /\ ctlCarrier' = ctlCarrier
        /\ legOf' = legOf /\ hungUp' = hungUp /\ RelayIdle
        /\ ctlCarrier # None /\ pc[ctlCarrier] = "preface"
    BY DEF ConnRegisters, Conn!ControlConnected, RelayIdle
  <1>2. UNCHANGED <<pc, controls, item, pending, resolved, connector>>
    BY <1>1 DEF RelayIdle, relayVars
  <1>3. ControlsLive' /\ LegsOwned' /\ WorkersDial'
    BY <1>1, ConnectorKeeps
  <1>4. RendezvousTyped' BY <1>0, <1>1, <1>2 DEF RendezvousTyped
  <1>5. ctlCarrier \in Connectors BY <1>0, <1>1 DEF RendezvousTyped
  <1>6. wire[ctlCarrier] = <<>> BY <1>0, <1>1, <1>5 DEF WireOrder, Unregistered, Unserved
  <1>7. \A c \in Carrier : ~Names(c, ctlCarrier) BY <1>0, <1>1, <1>5 DEF ControlsLive
  <1>8. WireOrder' BY <1>0, <1>1, <1>2, <1>6, <1>7 DEF WireOrder, Names
  <1> QED BY <1>3, <1>4, <1>8 DEF RendezvousInv

\* Reading a frame shifts the wire by one.
LEMMA FrameTaken ==
  ASSUME wire \in [Connectors -> Seq(Frames)], NEW k \in Connectors, wire[k] # <<>>, Taken(k)
  PROVE  /\ wire' \in [Connectors -> Seq(Frames)]
         /\ \A x \in Connectors : x # k => wire'[x] = wire[x]
         /\ Len(wire[k]) \in Nat /\ Len(wire[k]) >= 1
         /\ Len(wire'[k]) = Len(wire[k]) - 1
         /\ \A i \in 1 .. Len(wire'[k]) : wire'[k][i] = wire[k][i + 1]
  <1>1. wire[k] \in Seq(Frames) OBVIOUS
  <1>2. wire'[k] = Tail(wire[k]) /\ \A x \in Connectors : x # k => wire'[x] = wire[x]
    BY DEF Taken
  <1>3. Tail(wire[k]) \in Seq(Frames) BY <1>1
  <1>4. wire' \in [Connectors -> Seq(Frames)] BY <1>3 DEF Taken
  <1>5. /\ Len(wire[k]) \in Nat /\ Len(wire[k]) >= 1
        /\ Len(Tail(wire[k])) = Len(wire[k]) - 1
        /\ \A i \in 1 .. Len(Tail(wire[k])) : Tail(wire[k])[i] = wire[k][i + 1]
    BY <1>1
  <1> QED BY <1>2, <1>4, <1>5

\* Behind REGISTERED there is no second one.
LEMMA ReadsRegisteredInductive ==
  ASSUME RendezvousInv, ConnReadsRegistered
  PROVE  RendezvousInv'
  <1> USE NoneApart
  <1>0. RendezvousTyped /\ ControlsLive /\ WireOrder BY DEF RendezvousInv
  <1>1. /\ ctl' = "serve" /\ epoch' = ctlCarrier /\ work' = work
        /\ ctlCarrier' = ctlCarrier /\ legOf' = legOf /\ hungUp' = hungUp /\ RelayIdle
        /\ ctlCarrier # None /\ wire[ctlCarrier] # <<>> /\ Taken(ctlCarrier)
    BY DEF ConnReadsRegistered, Conn!Registered, RelayIdle, Reads
  <1>2. UNCHANGED <<pc, controls, item, pending, resolved, connector>>
    BY <1>1 DEF RelayIdle, relayVars
  <1>3. ControlsLive' /\ LegsOwned' /\ WorkersDial'
    BY <1>1, ConnectorKeeps
  <1>4. PICK k : k = ctlCarrier OBVIOUS
  <1>5. k \in Connectors BY <1>0, <1>1, <1>4 DEF RendezvousTyped
  <1>6. /\ wire' \in [Connectors -> Seq(Frames)]
        /\ \A x \in Connectors : x # k => wire'[x] = wire[x]
        /\ Len(wire[k]) \in Nat /\ Len(wire[k]) >= 1
        /\ Len(wire'[k]) = Len(wire[k]) - 1
        /\ \A i \in 1 .. Len(wire'[k]) : wire'[k][i] = wire[k][i + 1]
    BY <1>0, <1>1, <1>4, <1>5, FrameTaken DEF RendezvousTyped
  <1>7. pc[k] \notin Unregistered BY <1>0, <1>1, <1>4, <1>5 DEF WireOrder
  <1>8. RendezvousTyped' BY <1>0, <1>1, <1>2, <1>6 DEF RendezvousTyped
  <1>9. ASSUME NEW i \in 1 .. Len(wire'[k]) PROVE wire'[k][i].type # "REGISTERED"
    <2>1. i + 1 \in 2 .. Len(wire[k]) BY <1>6
    <2> QED BY <1>0, <1>5, <1>6, <2>1 DEF WireOrder
  <1>10. WireOrder'
    <2>1. \A y \in Connectors : pc'[y] \in Unregistered => wire'[y] = <<>>
      BY <1>0, <1>2, <1>6, <1>7 DEF WireOrder
    <2>2. \A y \in Connectors : \A i \in 2 .. Len(wire'[y]) : wire'[y][i].type # "REGISTERED"
      <3>1. \A i \in 2 .. Len(wire'[k]) : i \in 1 .. Len(wire'[k]) BY <1>6
      <3>2. \A i \in 2 .. Len(wire'[k]) : wire'[k][i].type # "REGISTERED" BY <1>9, <3>1
      <3>3. ASSUME NEW y \in Connectors, y # k
            PROVE  \A i \in 2 .. Len(wire'[y]) : wire'[y][i].type # "REGISTERED"
        <4>1. wire'[y] = wire[y] BY <1>6, <3>3
        <4>2. \A i \in 2 .. Len(wire[y]) : wire[y][i].type # "REGISTERED" BY <1>0 DEF WireOrder
        <4> QED BY <4>1, <4>2
      <3> QED BY <3>2, <3>3
    <2> QED BY <1>1, <1>2, <1>4, <1>7, <1>9, <2>1, <2>2 DEF WireOrder
  <1> QED BY <1>3, <1>8, <1>10 DEF RendezvousInv

\* acceptOpen starts a worker or refuses.
LEMMA ReadsOpenInductive ==
  ASSUME RendezvousInv, ConnReadsOpen
  PROVE  RendezvousInv'
  <1> USE NoneApart
  <1>0. RendezvousTyped /\ ControlsLive /\ WireOrder BY DEF RendezvousInv
  <1>1. /\ ctl = "serve" /\ wire[ctlCarrier] # <<>> /\ Taken(ctlCarrier)
        /\ ctlCarrier' = ctlCarrier /\ legOf' = legOf /\ hungUp' = hungUp /\ RelayIdle
    BY DEF ConnReadsOpen, RelayIdle, Reads
  <1>2. /\ ctl' = ctl /\ epoch' = epoch
        /\ work' = work \/ \E w : work' = [work EXCEPT ![w] = "dial"]
    BY DEF ConnReadsOpen, Conn!OpenAccepted, Conn!OpenRejected, Conn!ctlVars
  <1>3. UNCHANGED <<pc, controls, item, pending, resolved, connector>>
    BY <1>1 DEF RelayIdle, relayVars
  <1>4. /\ work' \in [Conn!Key -> Conn!WorkPhases]
        /\ \A x \in Conn!Key : work'[x] \in {"cancel", "ending"} => work[x] \in {"cancel", "ending"}
    BY <1>0, <1>2 DEF RendezvousTyped, Conn!WorkPhases
  <1>5. ControlsLive' /\ LegsOwned' /\ WorkersDial'
    BY <1>1, <1>4, ConnectorKeeps
  <1>6. PICK k : k = ctlCarrier OBVIOUS
  <1>7. k \in Connectors BY <1>0, <1>1, <1>6 DEF RendezvousTyped
  <1>8. /\ wire' \in [Connectors -> Seq(Frames)]
        /\ \A x \in Connectors : x # k => wire'[x] = wire[x]
        /\ Len(wire[k]) \in Nat /\ Len(wire[k]) >= 1
        /\ Len(wire'[k]) = Len(wire[k]) - 1
        /\ \A i \in 1 .. Len(wire'[k]) : wire'[k][i] = wire[k][i + 1]
    BY <1>0, <1>1, <1>6, <1>7, FrameTaken DEF RendezvousTyped
  <1>9. pc[k] \notin Unregistered BY <1>0, <1>1, <1>6, <1>7 DEF WireOrder
  <1>10. RendezvousTyped' BY <1>0, <1>1, <1>2, <1>3, <1>4, <1>8 DEF RendezvousTyped
  <1>11. ASSUME NEW i \in 1 .. Len(wire'[k]) PROVE wire'[k][i].type # "REGISTERED"
    <2>1. i + 1 \in 2 .. Len(wire[k]) BY <1>8
    <2> QED BY <1>0, <1>7, <1>8, <2>1 DEF WireOrder
  <1>12. WireOrder'
    <2>1. \A y \in Connectors : pc'[y] \in Unregistered => wire'[y] = <<>>
      BY <1>0, <1>3, <1>8, <1>9 DEF WireOrder
    <2>2. \A y \in Connectors : \A i \in 2 .. Len(wire'[y]) : wire'[y][i].type # "REGISTERED"
      <3>1. \A i \in 2 .. Len(wire'[k]) : i \in 1 .. Len(wire'[k]) BY <1>8
      <3>2. \A i \in 2 .. Len(wire'[k]) : wire'[k][i].type # "REGISTERED" BY <1>11, <3>1
      <3>3. ASSUME NEW y \in Connectors, y # k
            PROVE  \A i \in 2 .. Len(wire'[y]) : wire'[y][i].type # "REGISTERED"
        <4>1. wire'[y] = wire[y] BY <1>8, <3>3
        <4>2. \A i \in 2 .. Len(wire[y]) : wire[y][i].type # "REGISTERED" BY <1>0 DEF WireOrder
        <4> QED BY <4>1, <4>2
      <3> QED BY <3>2, <3>3
    <2>3. epoch' = ctlCarrier' BY <1>0, <1>1, <1>2 DEF WireOrder
    <2> QED BY <1>1, <1>2, <1>3, <1>6, <1>9, <1>11, <2>1, <2>2, <2>3 DEF WireOrder
  <1> QED BY <1>5, <1>10, <1>12 DEF RendezvousInv

\* runControl returns, or its pause ends.
LEMMA ControlLeftInductive ==
  ASSUME RendezvousInv, HangUpControl \/ ConnSleeps
  PROVE  RendezvousInv'
  <1>0. RendezvousTyped /\ WireOrder BY DEF RendezvousInv
  <1>1. /\ ctl' \in {"drain", "pause", "connect"} /\ work' = work /\ wire' = wire
        /\ ctlCarrier' \in {ctlCarrier, None}
        /\ legOf' = legOf /\ hungUp \subseteq hungUp' /\ RelayIdle
    BY DEF HangUpControl, ConnSleeps, Conn!ControlEnds, Conn!SleepEnds, RelayIdle
  <1>2. UNCHANGED <<pc, controls, item, pending, resolved, connector>>
    BY <1>1 DEF RelayIdle, relayVars
  <1>3. ControlsLive' /\ LegsOwned' /\ WorkersDial'
    BY <1>1, ConnectorKeeps
  <1>4. RendezvousTyped' BY <1>0, <1>1, <1>2 DEF RendezvousTyped
  <1>5. WireOrder' BY <1>0, <1>1, <1>2 DEF WireOrder
  <1> QED BY <1>3, <1>4, <1>5 DEF RendezvousInv

\* A worker's step that leaves the control and the wire alone, and reports or ends
\* only after it hung up.
LEMMA WorkerKeeps ==
  ASSUME RendezvousInv, RelayIdle, legOf' = legOf, hungUp \subseteq hungUp',
         UNCHANGED <<ctl, epoch, ctlCarrier, wire>>,
         NEW w \in Conn!Key, NEW p \in Conn!WorkPhases, work' = [work EXCEPT ![w] = p],
         p \in {"cancel", "ending"} =>
           work[w] \in {"cancel", "ending"} \/ legOf[w] \in hungUp' \cup {None}
  PROVE  RendezvousInv'
  <1>0. RendezvousTyped /\ WireOrder BY DEF RendezvousInv
  <1>1. /\ work' \in [Conn!Key -> Conn!WorkPhases]
        /\ \A x \in Conn!Key : work'[x] \in {"cancel", "ending"} =>
             work[x] \in {"cancel", "ending"} \/ legOf[x] \in hungUp' \cup {None}
    BY <1>0 DEF RendezvousTyped
  <1>2. UNCHANGED <<pc, controls, item, pending, resolved, connector>>
    BY DEF RelayIdle, relayVars
  <1>3. ControlsLive' /\ LegsOwned' /\ WorkersDial' BY <1>1, ConnectorKeeps
  <1>4. RendezvousTyped' BY <1>0, <1>1, <1>2 DEF RendezvousTyped
  <1>5. WireOrder' BY <1>0, <1>2 DEF WireOrder, Names
  <1> QED BY <1>3, <1>4, <1>5 DEF RendezvousInv

\* runSession and serveInner, up to the report of a failure.
LEMMA WorkerAdvancesInductive ==
  ASSUME RendezvousInv, NEW w \in Conn!Key, WorkerAdvances(w)
  PROVE  RendezvousInv'
  <1>1. /\ UNCHANGED <<wire, ctlCarrier, legOf, hungUp>> /\ RelayIdle
    BY DEF WorkerAdvances, RelayIdle
  <1>2. /\ UNCHANGED <<ctl, epoch>>
        /\ \/ \E p \in {"join", "inner", "slot", "local", "ready", "copy"} :
                work' = [work EXCEPT ![w] = p]
           \/ work[w] = "cancel" /\ work' = [work EXCEPT ![w] = "ending"]
    BY DEF WorkerAdvances, Conn!OuterConnected, Conn!JoinWritten, Conn!InnerAuthenticated,
           Conn!EnterActive, Conn!LocalDialed, Conn!ReadyWritten, Conn!CancelWritten,
           Conn!Advance, Conn!ctlVars
  <1>3. CASE work[w] = "cancel" /\ work' = [work EXCEPT ![w] = "ending"]
    <2>1. "ending" \in Conn!WorkPhases BY DEF Conn!WorkPhases
    <2> QED BY <1>1, <1>2, <1>3, <2>1, WorkerKeeps
  <1>4. ASSUME NEW p \in {"join", "inner", "slot", "local", "ready", "copy"},
               work' = [work EXCEPT ![w] = p]
        PROVE  RendezvousInv'
    <2>1. p \in Conn!WorkPhases /\ p \notin {"cancel", "ending"} BY DEF Conn!WorkPhases
    <2> QED BY <1>1, <1>2, <1>4, <2>1, WorkerKeeps
  <1> QED BY <1>2, <1>3, <1>4

\* A worker that fails or ends closes its connection.
LEMMA HangsUpInductive ==
  ASSUME RendezvousInv, NEW w \in Conn!Key, WorkerHangsUp(w)
  PROVE  RendezvousInv'
  <1>1. /\ UNCHANGED <<wire, ctlCarrier, legOf>> /\ RelayIdle
        /\ hungUp' = hungUp \union ({legOf[w]} \ {None})
    BY DEF WorkerHangsUp, RelayIdle
  <1>2. /\ UNCHANGED <<ctl, epoch>>
        /\ \E p \in {"cancel", "ending"} : work' = [work EXCEPT ![w] = p]
    BY DEF WorkerHangsUp, Conn!SessionFails, Conn!SessionEnds, Conn!Advance, Conn!ctlVars
  <1>3. PICK p \in {"cancel", "ending"} : work' = [work EXCEPT ![w] = p] BY <1>2
  <1>4. p \in Conn!WorkPhases BY DEF Conn!WorkPhases
  <1>5. hungUp \subseteq hungUp' /\ legOf[w] \in hungUp' \cup {None} BY <1>1
  <1> QED BY <1>1, <1>2, <1>3, <1>4, <1>5, WorkerKeeps

\* The connection of a worker that has left is closed and nobody has it.
LEMMA LeavesInductive ==
  ASSUME RendezvousInv, NEW w \in Conn!Key, WorkerLeaves(w)
  PROVE  RendezvousInv'
  <1> USE NoneApart
  <1>0. RendezvousTyped /\ ControlsLive /\ WireOrder /\ LegsOwned /\ WorkersDial
    BY DEF RendezvousInv
  <1>1. /\ UNCHANGED <<wire, ctlCarrier, hungUp, ctl, epoch>>
        /\ work[w] = "ending" /\ work' = [work EXCEPT ![w] = "none"]
        /\ legOf' = [legOf EXCEPT ![w] = None]
    BY DEF WorkerLeaves, Conn!WorkerDone, Conn!ctlVars
  <1>2. UNCHANGED <<pc, controls, item, pending, resolved, connector>>
    BY DEF WorkerLeaves, relayVars
  <1>3. /\ work' \in [Conn!Key -> Conn!WorkPhases]
        /\ legOf' \in [Conn!Key -> Connectors \cup {None}]
        /\ work'[w] = "none" /\ legOf'[w] = None
        /\ \A x \in Conn!Key : x # w => work'[x] = work[x] /\ legOf'[x] = legOf[x]
    BY <1>0, <1>1 DEF RendezvousTyped, Conn!WorkPhases
  <1>4. RendezvousTyped' BY <1>0, <1>1, <1>2, <1>3 DEF RendezvousTyped
  <1>5. ControlsLive' BY <1>0, <1>2 DEF ControlsLive, Names
  <1>6. WireOrder' BY <1>0, <1>1, <1>2 DEF WireOrder, Names
  <1>7. LegsOwned'
    <2>1. ASSUME NEW s \in Clients, NEW e \in Carrier, e \in resolved[s] \/ e = connector[s]
          PROVE  Owned(s, e)'
      <3>1. item[s].control \in Connectors /\ Owned(s, e) BY <1>0, <2>1 DEF LegsOwned
      <3>2. PICK x : x = <<item[s].control, s>> OBVIOUS
      <3>3. x \in Conn!Key BY <3>1, <3>2 DEF Conn!Key
      <3>4. CASE legOf[x] = e /\ x # w
        BY <1>2, <1>3, <3>2, <3>3, <3>4 DEF Owned
      <3>5. CASE legOf[x] = e /\ x = w
        <4>1. e \in hungUp BY <1>0, <1>1, <3>5 DEF WorkersDial
        <4>2. \A y \in Conn!Key : y # w => legOf[y] # e BY <1>0, <3>5 DEF WorkersDial
        <4>3. \A y \in Conn!Key : legOf'[y] # e BY <1>3, <4>2
        <4> QED BY <1>1, <4>1, <4>3 DEF Owned
      <3>6. CASE e \in hungUp /\ \A y \in Conn!Key : legOf[y] # e
        BY <1>1, <1>3, <3>6 DEF Owned
      <3> QED BY <3>1, <3>2, <3>4, <3>5, <3>6 DEF Owned
    <2> QED BY <1>0, <1>2, <2>1 DEF LegsOwned
  <1>8. WorkersDial' BY <1>0, <1>1, <1>2, <1>3 DEF WorkersDial
  <1> QED BY <1>4, <1>5, <1>6, <1>7, <1>8 DEF RendezvousInv

-----------------------------------------------------------------------------
\* Every step of the relay alone.
LEMMA RelayAloneInductive ==
  ASSUME RendezvousInv, NEW c \in Carrier, RelayOnly(c), wire' = wire, ConnectorKept
  PROVE  RendezvousInv'
  <1>0. WireKept BY DEF WireKept
  <1>1. CASE ClientArrives(c) BY <1>0, <1>1, AcceptPlain, PlainKept, KeptInductive DEF ClientArrives
  <1>2. CASE Relay!Authenticated(c) BY <1>0, <1>2, AuthenticatedPlain, PlainKept, KeptInductive
  <1>3. CASE Relay!Reject(c) BY <1>0, <1>3, RejectPlain, PlainKept, KeptInductive
  <1>4. CASE Relay!InstallControl(c) BY <1>0, <1>4, InstallKept, KeptInductive
  <1>5. CASE \E r \in Route : Relay!ClientOpen(c, r) BY <1>5, OpenInductive
  <1>6. CASE Relay!JoinDeadline(c) BY <1>0, <1>6, JoinDeadlinePlain, PlainKept, KeptInductive
  <1>7. CASE Relay!ReceiveResolution(c) \/ Relay!DiscardResolution(c)
    BY <1>0, <1>7, ReceiveKept, KeptInductive
  <1>8. CASE Relay!EndCopy(c) BY <1>0, <1>8, EndCopyPlain, PlainKept, KeptInductive
  <1>9. CASE Relay!FinishActive(c) BY <1>0, <1>9, FinishKept, KeptInductive
  <1>10. CASE Relay!Abort(c) BY <1>0, <1>10, AbortPlain, PlainKept, KeptInductive
  <1> QED BY <1>1, <1>2, <1>3, <1>4, <1>5, <1>6, <1>7, <1>8, <1>9, <1>10 DEF RelayOnly

\* The relay reads CANCEL or the end of a control.
LEMMA ReadsControlInductive ==
  ASSUME RendezvousInv, NEW k \in Connectors, RelayReadsControl(k)
  PROVE  RendezvousInv'
  <1> USE NoneApart
  <1>1. WireKept /\ ConnectorKept BY DEF RelayReadsControl, WireKept, ConnectorKept
  <1>2. CASE Relay!ControlEnds(k) BY <1>1, <1>2, EndsKept, KeptInductive
  <1>3. ASSUME NEW s \in Clients, Relay!ControlCancel(k, s) PROVE RendezvousInv'
    BY <1>1, <1>3, CancelKept, KeptInductive
  <1> QED BY <1>2, <1>3 DEF RelayReadsControl

\* The relay writes OPEN, or the write fails.
LEMMA OpensInductive ==
  ASSUME RendezvousInv, NEW c \in Clients, RelayOpens(c)
  PROVE  RendezvousInv'
  <1> USE NoneApart
  <1>1. ConnectorKept /\ item[c] # None BY DEF RelayOpens, ConnectorKept
  <1>2. CASE Relay!OpenWritten(c) /\ Put(item[c].control, OpenFrame(c))
    <2>1. OpenFrame(c) \in Frames /\ OpenFrame(c).type # "REGISTERED"
      BY DEF OpenFrame, Frames
    <2>2. Names(c, item[c].control) BY <1>1 DEF Names
    <2>3. PICK f : f = OpenFrame(c) OBVIOUS
    <2>4. WireKept BY <1>2, <2>1, <2>2, <2>3 DEF WireKept
    <2> QED BY <1>1, <1>2, <2>4, OpenWrittenPlain, PlainKept, KeptInductive
  <1>3. CASE Relay!OpenWriteFails(c) /\ wire' = wire
    <2>1. WireKept BY <1>3 DEF WireKept
    <2>2. pc[c] = "opening" /\ Relay!CancelOr(c, "discarding") BY <1>3 DEF Relay!OpenWriteFails
    <2> QED BY <1>1, <2>1, <2>2, CancelOrKept, KeptInductive
  <1> QED BY <1>2, <1>3 DEF RelayOpens

\* A session that times out is reported with CANCEL on its control.
LEMMA TimesOutInductive ==
  ASSUME RendezvousInv, NEW c \in Clients, RelayTimesOut(c)
  PROVE  RendezvousInv'
  <1> USE NoneApart
  <1>1. ConnectorKept /\ pc[c] = "waiting" /\ Relay!CancelOr(c, "late")
    BY DEF RelayTimesOut, ConnectorKept, Relay!JoinTimeout
  <1>2. WireKept
    <2>1. CASE c \in pending
      <3>1. CancelFrame(c) \in Frames /\ CancelFrame(c).type # "REGISTERED"
        BY DEF CancelFrame, Frames
      <3>2. Names(c, item[c].control) BY <2>1 DEF Names
      <3>3. PICK f : f = CancelFrame(c) OBVIOUS
      <3> QED BY <2>1, <3>1, <3>2, <3>3 DEF WireKept, RelayTimesOut
    <2>2. CASE c \notin pending BY <2>2 DEF WireKept, RelayTimesOut
    <2> QED BY <2>1, <2>2
  <1> QED BY <1>1, <1>2, CancelOrKept, KeptInductive

\* A step that changes nothing.
LEMMA RendezvousStuttering ==
  ASSUME RendezvousInv, UNCHANGED vars PROVE RendezvousInv'
  <1>1. UNCHANGED <<pc, controls, item, pending, resolved, connector, ctl, epoch, work, wire,
                    ctlCarrier, legOf, hungUp>>
    BY DEF vars, relayVars, connVars
  <1> QED BY <1>1 DEF RendezvousInv, RendezvousTyped, ControlsLive, WireOrder, LegsOwned,
                      WorkersDial, Names, Owned

\* The initial state satisfies the invariant.
LEMMA RendezvousStarts == Init => RendezvousInv
  <1> SUFFICES ASSUME Init PROVE RendezvousInv OBVIOUS
  <1> USE NoneApart
  <1>1. /\ pc = [c \in Carrier |-> "idle"] /\ controls = [r \in Route |-> None]
        /\ pending = {} /\ item = [c \in Carrier |-> None]
        /\ resolved = [c \in Carrier |-> {}] /\ connector = [c \in Carrier |-> None]
        /\ ctl = "connect" /\ work = [w \in Conn!Key |-> "none"]
        /\ wire = [k \in Connectors |-> <<>>] /\ ctlCarrier = None
        /\ legOf = [w \in Conn!Key |-> None]
    BY DEF Init, Relay!Init, Conn!ConnectorInit
  <1>2. RendezvousTyped
    BY <1>1 DEF RendezvousTyped, Relay!Phases, Conn!WorkPhases
  <1>3. ControlsLive BY <1>1 DEF ControlsLive, Names
  <1>4. WireOrder BY <1>1 DEF WireOrder
  <1>5. LegsOwned BY <1>1 DEF LegsOwned
  <1>6. WorkersDial BY <1>1 DEF WorkersDial
  <1> QED BY <1>2, <1>3, <1>4, <1>5, <1>6 DEF RendezvousInv

\* Every step of relay and connector keeps the invariant.
LEMMA RendezvousStep ==
  ASSUME RendezvousInv, [Next]_vars PROVE RendezvousInv'
  <1> USE NoneApart
  <1>1. CASE UNCHANGED vars BY <1>1, RendezvousStuttering
  <1>2. CASE RelayAlone
    <2>1. ConnectorKept /\ wire' = wire BY <1>2 DEF RelayAlone, ConnectorKept
    <2> QED BY <1>2, <2>1, RelayAloneInductive DEF RelayAlone
  <1>3. ASSUME NEW k \in Connectors, RelayReadsControl(k) PROVE RendezvousInv'
    BY <1>3, ReadsControlInductive
  <1>4. ASSUME NEW k \in Connectors, RelayRegisters(k) PROVE RendezvousInv'
    BY <1>4, RegisterInductive
  <1>5. ASSUME NEW k \in Connectors, DialControl(k) PROVE RendezvousInv'
    BY <1>5, DialControlInductive
  <1>6. ASSUME NEW k \in Connectors, RegisterArrives(k) PROVE RendezvousInv'
    <2>1. WireKept /\ ConnectorKept /\ Relay!ControlRegister(k)
      BY <1>6 DEF RegisterArrives, WireKept, ConnectorKept
    <2> QED BY <2>1, ControlRegisterPlain, PlainKept, KeptInductive
  <1>7. ASSUME NEW c \in Clients, RelayOpens(c) PROVE RendezvousInv'
    BY <1>7, OpensInductive
  <1>8. ASSUME NEW c \in Clients, RelayTimesOut(c) PROVE RendezvousInv'
    BY <1>8, TimesOutInductive
  <1>9. CASE ConnRegisters BY <1>9, ConnRegistersInductive
  <1>10. CASE ConnReadsRegistered BY <1>10, ReadsRegisteredInductive
  <1>11. CASE ConnReadsOpen BY <1>11, ReadsOpenInductive
  <1>12. CASE ConnControlLost \/ ConnInvalidFrame \/ ConnSleeps
    BY <1>12, ControlLeftInductive DEF ConnControlLost, ConnInvalidFrame
  <1>13. ASSUME NEW w \in Conn!Key, JoinArrives(w) PROVE RendezvousInv'
    <2>1. legOf[w] \in Carrier BY <1>13 DEF JoinArrives, RendezvousInv, RendezvousTyped
    <2>2. RelayKept(legOf[w]) BY <1>13, JoinKept
    <2>3. PICK d \in Carrier : RelayKept(d) BY <2>1, <2>2
    <2> QED BY <2>3, KeptInductive
  <1>14. ASSUME NEW w \in Conn!Key, WorkerAdvances(w) PROVE RendezvousInv'
    BY <1>14, WorkerAdvancesInductive
  <1>15. ASSUME NEW w \in Conn!Key, WorkerHangsUp(w) PROVE RendezvousInv'
    BY <1>15, HangsUpInductive
  <1>16. ASSUME NEW w \in Conn!Key, WorkerLeaves(w) PROVE RendezvousInv'
    BY <1>16, LeavesInductive
  <1>17. ASSUME NEW w \in Conn!Key, NEW d \in Connectors, DialData(w, d) PROVE RendezvousInv'
    BY <1>17, DialDataInductive
  <1>18. CASE Settled BY <1>18, RendezvousStuttering DEF Settled
  <1> QED BY <1>1, <1>2, <1>3, <1>4, <1>5, <1>6, <1>7, <1>8, <1>9, <1>10, <1>11, <1>12,
             <1>13, <1>14, <1>15, <1>16, <1>17, <1>18 DEF Next

\* The invariant always holds.
LEMMA RendezvousInductive == Spec => []RendezvousInv
  <1>1. RendezvousInv /\ [Next]_vars => RendezvousInv' BY RendezvousStep
  <1> QED BY <1>1, RendezvousStarts, PTL DEF Spec

\* The invariant says what RendezvousAgrees says.
LEMMA InvAgrees == RendezvousInv => RendezvousAgrees
  <1> SUFFICES ASSUME RendezvousInv PROVE RendezvousAgrees OBVIOUS
  <1> USE NoneApart
  <1>0. RendezvousTyped /\ WireOrder /\ LegsOwned BY DEF RendezvousInv
  <1>t. ctl \in {"register", "serve"} => ctlCarrier \in Connectors
    BY <1>0 DEF RendezvousTyped
  <1>1. ASSUME NEW k \in Connectors, wire[k] # <<>>
        PROVE  Head(wire[k]) = wire[k][1] /\ 1 \in 1 .. Len(wire[k])
    <2>1. wire[k] \in Seq(Frames) BY <1>0 DEF RendezvousTyped
    <2> QED BY <1>1, <2>1
  <1>2. RegisteredFirst
    <2>1. ctl = "register" => (wire[ctlCarrier] = <<>> \/ Reads(ctlCarrier, "REGISTERED"))
      BY <1>0, <1>t, <1>1 DEF WireOrder, Reads
    <2>2. ctl = "serve" => epoch = ctlCarrier /\ ~Reads(ctlCarrier, "REGISTERED")
      BY <1>0, <1>t, <1>1 DEF WireOrder, Reads
    <2> QED BY <2>1, <2>2 DEF RegisteredFirst
  <1>3. PairAgrees
    <2> SUFFICES ASSUME NEW s \in Clients, NEW d, d = connector[s], d # None
                 PROVE  \/ legOf[<<item[s].control, s>>] = d
                        \/ d \in hungUp /\ \A w \in Conn!Key : legOf[w] # d
      BY DEF PairAgrees
    <2>1. d \in Carrier BY <1>0 DEF RendezvousTyped
    <2> QED BY <1>0, <2>1 DEF LegsOwned, Owned
  <1> QED BY <1>2, <1>3 DEF RendezvousAgrees

\* REGISTERED is the first frame the connector reads on a control, however clients
\* race with the registration, and a data connection the relay copies to a client
\* was dialed by the worker for that client under the control the session was
\* opened on, or that worker has hung up and left (relay/service.go,
\* connector/service.go): for any number of carriers, clients, routes and limits.
THEOREM AgreementTheorem == Spec => []RendezvousAgrees
  BY RendezvousInductive, InvAgrees, PTL
=============================================================================
