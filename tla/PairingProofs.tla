------------------------------ MODULE PairingProofs ------------------------------
(***************************************************************************)
(* Proofs about pairing and renewal, for any number of clients, attempts   *)
(* and requests and any bound on the retired codes.                        *)
(*                                                                         *)
(* PeersTogether is not inductive: it says nothing of the requests that    *)
(* are still on the network, and those decide what the receiver may commit *)
(* next.  IInv adds that requests are told apart by their number           *)
(* (Numbered), what a client's file holds in each stage (FileMatches),     *)
(* that no request under way is newer than the pending one, or, without    *)
(* one, than the credentials (SentBehind), which request the remembered    *)
(* response belongs to (Memory), and what a received answer proves         *)
(* (AnswerProves).                                                         *)
(***************************************************************************)
EXTENDS Pairing, SequenceTheorems, TLAPS

Stages == Waiting \cup {"idle", "dial"}
Requests == [kind : {"pair", "renew"}, client : Clients, attempt : Nat, known : Nat, id : Nat]
Answers == [kind : {"grant", "status"}, of : Nat, gen : Nat]
Peers == [client : Clients \cup {None}, attempt : Nat, initial : Nat, gen : Nat, auth : Nat,
          last : Nat, locked : BOOLEAN, revoked : BOOLEAN]
Files == [pend : SUBSET Requests, pkeys : Nat, gen : Nat, keys : Nat, auth : Nat]

TypeOK ==
    /\ rcv \in [local : BOOLEAN, attempt : Nat, peer : Peers, retired : Seq(Nat)]
    /\ cli \in [Clients -> Files]
    /\ stage \in [Clients -> Stages]
    /\ inbox \in [Clients -> SUBSET Answers]
    /\ sent \in SUBSET Requests
    /\ expired \in SUBSET Requests
    /\ attempts \in Nat /\ late \in SUBSET Nat
    /\ made \in [Clients -> Nat]

\* The requests of c that the receiver may still see.
Mine(c) == {r \in sent : r.client = c} \cup cli[c].pend

\* Without a client the receiver's record is empty.
EmptyPeer == rcv.peer.client = None => rcv.peer = NoPeer

\* A code is open or retired, never both, and the next one is neither.
CodesApart ==
    /\ rcv.attempt <= attempts
    /\ \A i \in 1..Len(rcv.retired) : rcv.retired[i] \in 1..attempts /\ rcv.retired[i] # rcv.attempt

Numbered(c) ==
    /\ \A r \in Mine(c) : r.client = c /\ r.id \in 1..made[c]
    /\ \A r, s \in Mine(c) : r.id = s.id => r = s

FileMatches(c) ==
    /\ \A r \in cli[c].pend :
          /\ r.id = cli[c].pkeys
          /\ r.kind = "pair" <=> cli[c].gen = 0
          /\ r.kind = "pair" => r.known = 0
    /\ stage[c] = "pair" => cli[c].pend # {} /\ cli[c].gen = 0
    /\ stage[c] \in {"renew", "query", "again"} => cli[c].pend # {} /\ cli[c].gen > 0
    /\ stage[c] = "dial" => cli[c].pend = {} /\ cli[c].gen > 0

SentBehind(c) ==
    \A r \in sent : r.client = c /\ r.kind = "renew" =>
        /\ cli[c].gen > 0
        /\ cli[c].pend = {} => r.known < cli[c].gen
        /\ \A p \in cli[c].pend : r.known <= p.known

\* What the receiver holds, seen from the client's file.
Agrees(c) ==
    /\ cli[c].gen > 0 => rcv.peer.client = c
    /\ cli[c].gen > 0 /\ cli[c].pend = {} => rcv.peer.gen = cli[c].gen /\ rcv.peer.auth = cli[c].auth
    /\ \A p \in cli[c].pend : p.kind = "renew" => rcv.peer.gen \in {p.known, p.known + 1}
    /\ cli[c].gen = 0 /\ rcv.peer.client = c =>
          rcv.peer.gen = 1 /\ rcv.peer.auth = rcv.peer.initial /\ rcv.peer.last = 0

Memory(c) ==
    rcv.peer.client = c =>
        /\ rcv.peer.last <= made[c]
        /\ \A r \in Mine(c) : r.kind = "renew" /\ r.id = rcv.peer.last =>
              rcv.peer.gen = r.known + 1 /\ rcv.peer.auth = r.id

AnswerProves(c) ==
    inbox[c] # {} => \A p \in cli[c].pend :
        /\ stage[c] = "pair" => rcv.peer.client = c /\ rcv.peer.auth = p.id
        /\ stage[c] \in {"renew", "again"} => rcv.peer.gen = p.known + 1 /\ rcv.peer.auth = p.id
        /\ stage[c] = "query" => \A a \in inbox[c] :
              a.gen \in {p.known, p.known + 1} /\ a.gen <= rcv.peer.gen

Good(c) == /\ Numbered(c) /\ FileMatches(c) /\ SentBehind(c) 
           /\ Agrees(c) /\ Memory(c) /\ AnswerProves(c)

IInv == TypeOK /\ EmptyPeer /\ CodesApart /\ \A c \in Clients : Good(c)

-----------------------------------------------------------------------------
(* Operators. *)

\* The oldest code is dropped when the list is full, and the new one is added
\* (appendRetiredCode): nothing else is in the list.
LEMMA AppendRetiredRange ==
    ASSUME NEW s \in Seq(Nat), NEW a \in Nat
    PROVE  /\ AppendRetired(s, a) \in Seq(Nat)
           /\ \A i \in 1..Len(AppendRetired(s, a)) :
                 AppendRetired(s, a)[i] = a \/ \E j \in 1..Len(s) : AppendRetired(s, a)[i] = s[j]
  <1> DEFINE kept == IF Len(s) = MaxRetired THEN Tail(s) ELSE s
  <1>1. /\ kept \in Seq(Nat)
        /\ \A i \in 1..Len(kept) : \E j \in 1..Len(s) : kept[i] = s[j]
    <2>1. CASE Len(s) = MaxRetired
      <3>1. s # <<>>
        BY <2>1, PairingAssumption
      <3>2. /\ Tail(s) \in Seq(Nat) /\ Len(Tail(s)) = Len(s) - 1
            /\ \A i \in 1..Len(Tail(s)) : Tail(s)[i] = s[i + 1]
        BY <3>1, HeadTailProperties
      <3>3. \A i \in 1..Len(Tail(s)) : i + 1 \in 1..Len(s)
        BY <3>2, LenProperties
      <3> QED BY <2>1, <3>2, <3>3
    <2>2. CASE Len(s) # MaxRetired
      BY <2>2
    <2> QED BY <2>1, <2>2
  <1> HIDE DEF kept
  <1>2. /\ Append(kept, a) \in Seq(Nat)
        /\ Len(Append(kept, a)) = Len(kept) + 1
        /\ \A i \in 1..Len(kept) : Append(kept, a)[i] = kept[i]
        /\ Append(kept, a)[Len(kept) + 1] = a
    BY <1>1, AppendProperties
  <1>3. \A i \in 1..Len(kept) + 1 : i \in 1..Len(kept) \/ i = Len(kept) + 1
    BY <1>1, LenProperties
  <1>4. AppendRetired(s, a) = Append(kept, a)
    BY DEF AppendRetired, kept
  <1> QED BY <1>1, <1>2, <1>3, <1>4

\* The receiver's answers are well typed.
LEMMA AnswerTypes ==
    ASSUME NEW g \in Nat, NEW r \in Requests
    PROVE  /\ Grant(r) \in SUBSET Answers /\ Snapshot(r, g) \in SUBSET Answers
  BY DEF Requests, Grant, Snapshot, Answers, Next_

-----------------------------------------------------------------------------
(* Steps that leave a client alone. *)

\* What Good(c) reads of the receiver's record.
SameRecord == /\ rcv'.peer.client = rcv.peer.client /\ rcv'.peer.gen = rcv.peer.gen
              /\ rcv'.peer.auth = rcv.peer.auth /\ rcv'.peer.initial = rcv.peer.initial
              /\ rcv'.peer.last = rcv.peer.last

\* A client is as good as before when its file, its operation and the record
\* are, and the network gained only what it had pending or others sent.
LEMMA Untouched ==
    ASSUME TypeOK, NEW c \in Clients, Good(c), SameRecord,
           cli'[c] = cli[c], stage'[c] = stage[c], inbox'[c] = inbox[c], made'[c] = made[c],
           sent \subseteq sent', \A r \in sent' \ sent : r.client # c
    PROVE  Good(c)'
  <1>1. Mine(c)' = Mine(c)
    BY DEF Mine
  <1>2. Numbered(c)' /\ Memory(c)'
    BY <1>1 DEF Good, Numbered, Memory, SameRecord
  <1>3. FileMatches(c)' /\ SentBehind(c)'
    BY DEF Good, FileMatches, SentBehind
  <1>4. Agrees(c)' /\ AnswerProves(c)'
    BY DEF Good, Agrees, AnswerProves, SameRecord
  <1> QED BY <1>2, <1>3, <1>4 DEF Good

\* One client's operation goes on with its file as it is: what it sends is what
\* is pending, and the answer it waited for is gone.
LEMMA Moved ==
    ASSUME TypeOK, NEW c \in Clients, Good(c), rcv' = rcv,
           cli'[c] = cli[c], made'[c] = made[c], inbox'[c] = {},
           sent \subseteq sent', \A r \in sent' \ sent : r \in cli[c].pend,
           FileMatches(c)'
    PROVE  Good(c)'
  <1>1. \A r \in cli[c].pend : r.client = c
    BY DEF Good, Numbered, Mine
  <1>2. Mine(c)' = Mine(c)
    BY <1>1 DEF Mine
  <1>3. Numbered(c)' /\ Memory(c)'
    BY <1>2 DEF Good, Numbered, Memory
  <1>4. \A r, s \in cli[c].pend : r = s
    BY DEF Good, FileMatches, Numbered, Mine
  <1>5. \A p \in cli[c].pend : p.known \in Nat
    BY DEF TypeOK, Files, Requests
  <1>6. SentBehind(c)'
    <2> SUFFICES ASSUME NEW r \in sent', r.client = c, r.kind = "renew"
                 PROVE  /\ cli[c].gen > 0
                        /\ cli[c].pend = {} => r.known < cli[c].gen
                        /\ \A p \in cli[c].pend : r.known <= p.known
      BY DEF SentBehind
    <2>1. CASE r \in sent
      BY <2>1 DEF Good, SentBehind
    <2>2. CASE r \in cli[c].pend
      BY <1>4, <1>5, <2>2 DEF Good, FileMatches, TypeOK, Files
    <2> QED BY <2>1, <2>2
  <1>7. Agrees(c)' /\ AnswerProves(c)'
    BY DEF Good, Agrees, AnswerProves
  <1> QED BY <1>3, <1>6, <1>7 DEF Good

-----------------------------------------------------------------------------
(* Writes of client.json. *)

\* A write that may fail: the file is the old or the new one, and only a
\* successful write lets the operation go on.
LEMMA SaveEffect ==
    ASSUME TypeOK, NEW c \in Clients, NEW new \in Files, NEW where \in Stages,
           Save(c, new, where)
    PROVE  /\ cli' \in [Clients -> Files] /\ stage' \in [Clients -> Stages]
           /\ inbox' \in [Clients -> SUBSET Answers]
           /\ \A d \in Clients \ {c} :
                 cli'[d] = cli[d] /\ stage'[d] = stage[d] /\ inbox'[d] = inbox[d]
           /\ inbox'[c] = {}
           /\ \/ cli'[c] = new /\ stage'[c] = where
              \/ cli'[c] \in {cli[c], new} /\ stage'[c] = "idle"
  <1>1. PICK stored \in {cli[c], new}, to \in {where, "idle"} :
            /\ to = "idle" \/ stored = new
            /\ cli' = [cli EXCEPT ![c] = stored]
            /\ stage' = [stage EXCEPT ![c] = to] /\ inbox' = [inbox EXCEPT ![c] = {}]
    BY DEF Save, Goes
  <1>2. stored \in Files /\ to \in Stages
    BY DEF TypeOK, Stages
  <1> QED BY <1>1, <1>2 DEF TypeOK

\* A new request: the file names it before the network does.
LEMMA SaveAndSendEffect ==
    ASSUME TypeOK, NEW c \in Clients, Numbered(c), NEW r \in Requests, r.id = made[c] + 1,
           NEW where \in Stages \ {"idle"}, SaveAndSend(c, r, where), ClientOnly
    PROVE  /\ TypeOK'
           /\ \A d \in Clients \ {c} : /\ cli'[d] = cli[d] /\ stage'[d] = stage[d]
                                        /\ inbox'[d] = inbox[d] /\ made'[d] = made[d]
           /\ inbox'[c] = {}
           /\ \/ cli'[c] = cli[c] /\ stage'[c] = "idle" /\ sent' = sent /\ made' = made
              \/ /\ cli'[c] = [cli[c] EXCEPT !.pend = {r}, !.pkeys = r.id]
                 /\ made'[c] = r.id
                 /\ \/ stage'[c] = where /\ sent' = sent \cup {r}
                    \/ stage'[c] = "idle" /\ sent' = sent
  <1> DEFINE new == [cli[c] EXCEPT !.pend = {r}, !.pkeys = r.id]
  <1>1. cli[c] \in Files /\ made[c] \in Nat /\ r.id \in Nat
    BY DEF TypeOK, Requests
  <1>2. new \in Files /\ new.pend = {r}
    BY <1>1 DEF Files
  <1>3. new # cli[c]
    <2>1. r \notin cli[c].pend
      BY <1>1 DEF Numbered, Mine
    <2> QED BY <1>2, <2>1
  <1>4. /\ Save(c, new, where)
        /\ made' = IF cli' = cli THEN made ELSE [made EXCEPT ![c] = r.id]
        /\ sent' = IF stage'[c] = where THEN sent \union {r} ELSE sent
    BY DEF SaveAndSend
  <1> HIDE DEF new
  <1>5. /\ cli' \in [Clients -> Files] /\ stage' \in [Clients -> Stages]
        /\ inbox' \in [Clients -> SUBSET Answers]
        /\ \A d \in Clients \ {c} :
              cli'[d] = cli[d] /\ stage'[d] = stage[d] /\ inbox'[d] = inbox[d]
        /\ inbox'[c] = {}
        /\ \/ cli'[c] = new /\ stage'[c] = where
           \/ cli'[c] \in {cli[c], new} /\ stage'[c] = "idle"
    BY <1>2, <1>4, SaveEffect
  <1>6. TypeOK'
    BY <1>1, <1>4, <1>5 DEF TypeOK, ClientOnly
  <1>7. \A d \in Clients \ {c} : made'[d] = made[d]
    BY <1>4 DEF TypeOK
  <1>8. CASE cli'[c] = new
    <2>1. cli' # cli
      BY <1>3, <1>8
    <2>2. made'[c] = r.id
      BY <1>4, <2>1 DEF TypeOK
    <2>3. \/ stage'[c] = where /\ sent' = sent \cup {r}
          \/ stage'[c] = "idle" /\ sent' = sent
      BY <1>4, <1>5
    <2> QED BY <1>5, <1>6, <1>7, <1>8, <2>2, <2>3 DEF new
  <1>9. CASE cli'[c] # new
    <2>1. cli'[c] = cli[c] /\ stage'[c] = "idle"
      BY <1>5, <1>9
    <2>2. cli' = cli
      BY <1>5, <2>1 DEF TypeOK
    <2> QED BY <1>4, <1>5, <1>6, <1>7, <2>1, <2>2
  <1> QED BY <1>8, <1>9

\* A new request leaves the client good when it continues what the receiver may
\* have committed: the first one is a pairing, a later one asks for the
\* generation after g, and the receiver is at g or has just passed it.
LEMMA NewRequest ==
    ASSUME IInv, NEW c \in Clients, NEW r \in Requests,
           r.client = c, r.id = made[c] + 1,
           NEW where \in Stages \ {"idle"}, SaveAndSend(c, r, where), ClientOnly,
           r.kind = "pair" <=> cli[c].gen = 0,
           r.kind = "pair" => r.known = 0 /\ where = "pair",
           r.kind = "renew" => /\ where \in {"renew", "again"}
                               /\ rcv.peer.gen \in {r.known, r.known + 1}
                               /\ \A s \in sent : s.client = c /\ s.kind = "renew" => s.known <= r.known
    PROVE  IInv'
  <1> DEFINE new == [cli[c] EXCEPT !.pend = {r}, !.pkeys = r.id]
  <1>1. TypeOK /\ Good(c) /\ Numbered(c) /\ rcv' = rcv /\ attempts' = attempts
    BY DEF IInv, Good, ClientOnly
  <1>2. /\ TypeOK'
        /\ \A d \in Clients \ {c} : /\ cli'[d] = cli[d] /\ stage'[d] = stage[d]
                                     /\ inbox'[d] = inbox[d] /\ made'[d] = made[d]
        /\ inbox'[c] = {}
        /\ \/ cli'[c] = cli[c] /\ stage'[c] = "idle" /\ sent' = sent /\ made' = made
           \/ /\ cli'[c] = new
              /\ made'[c] = r.id
              /\ \/ stage'[c] = where /\ sent' = sent \cup {r}
                 \/ stage'[c] = "idle" /\ sent' = sent
    BY <1>1, SaveAndSendEffect
  <1>3. EmptyPeer' /\ CodesApart'
    BY <1>1 DEF IInv, EmptyPeer, CodesApart
  <1>4. ASSUME NEW d \in Clients \ {c} PROVE Good(d)'
    BY <1>1, <1>2, Untouched DEF IInv, SameRecord
  <1>5. CASE cli'[c] = cli[c] /\ stage'[c] = "idle" /\ sent' = sent /\ made' = made
    <2>1. FileMatches(c)'
      BY <1>1, <1>5 DEF Good, FileMatches
    <2> QED BY <1>1, <1>2, <1>3, <1>4, <1>5, <2>1, Moved DEF IInv
  <1>6. CASE /\ cli'[c] = new
             /\ made'[c] = r.id
             /\ \/ stage'[c] = where /\ sent' = sent \cup {r}
                \/ stage'[c] = "idle" /\ sent' = sent
    <2>1. cli[c] \in Files /\ made[c] \in Nat /\ r.known \in Nat /\ r.kind \in {"pair", "renew"}
      BY <1>1 DEF TypeOK, Requests
    <2>2. cli'[c].pend = {r} /\ cli'[c].pkeys = r.id /\ cli'[c].gen = cli[c].gen /\ cli[c].gen \in Nat
      BY <1>6, <2>1 DEF Files
    <2> HIDE DEF new
    <2>3. Mine(c)' \subseteq Mine(c) \cup {r} /\ r.id > made[c]
      BY <1>6, <2>1, <2>2 DEF Mine
    <2>4. \A s \in Mine(c) : s.client = c /\ s.id \in 1..made[c]
      BY <1>1 DEF Numbered
    <2>5. Numbered(c)'
      BY <1>1, <1>6, <2>1, <2>3, <2>4 DEF Numbered
    <2>6. FileMatches(c)'
      BY <1>6, <2>1, <2>2 DEF FileMatches, Stages
    <2>7. SentBehind(c)'
      BY <1>1, <1>6, <2>1, <2>2 DEF Good, SentBehind
    <2>8. Agrees(c)'
      BY <1>1, <2>1, <2>2 DEF Good, Agrees
    <2>9. Memory(c)'
      <3> SUFFICES ASSUME rcv.peer.client = c
                   PROVE  /\ rcv.peer.last <= made'[c]
                          /\ \A s \in Mine(c)' : s.kind = "renew" /\ s.id = rcv.peer.last =>
                                rcv.peer.gen = s.known + 1 /\ rcv.peer.auth = s.id
        BY <1>1 DEF Memory
      <3>1. rcv.peer.last \in Nat /\ rcv.peer.last <= made[c]
        BY <1>1 DEF Good, Memory, TypeOK, Peers
      <3> QED BY <1>1, <1>6, <2>1, <2>3, <3>1 DEF Good, Memory
    <2>10. AnswerProves(c)'
      BY <1>2 DEF AnswerProves
    <2> QED BY <1>2, <1>3, <1>4, <2>5, <2>6, <2>7, <2>8, <2>9, <2>10 DEF IInv, Good
  <1> QED BY <1>2, <1>5, <1>6

\* The credentials of the answered request replace the old ones (commitClient):
\* the receiver has committed just that request.
LEMMA CommitGood ==
    ASSUME IInv, NEW c \in Clients, NEW r \in cli[c].pend, NEW where \in {"idle", "dial"},
           Commit(c, r, where), ClientOnly, sent' = sent, made' = made,
           rcv.peer.client = c, rcv.peer.gen = r.known + 1, rcv.peer.auth = r.id
    PROVE  IInv'
  <1> DEFINE new == [pend |-> {}, pkeys |-> 0, gen |-> r.known + 1, keys |-> cli[c].pkeys, auth |-> r.id]
  <1>1. TypeOK /\ Good(c) /\ rcv' = rcv /\ attempts' = attempts /\ late' = late /\ expired' = expired
    BY DEF IInv, ClientOnly
  <1>2. cli[c] \in Files /\ r \in Requests /\ r.known \in Nat /\ r.id \in Nat /\ cli[c].pkeys \in Nat
    BY <1>1 DEF TypeOK, Files, Requests
  <1>3. new \in Files /\ new.pend = {} /\ new.gen = r.known + 1 /\ new.auth = r.id
    BY <1>2 DEF Files
  <1>4. Save(c, new, where)
    BY DEF Commit, Next_
  <1> HIDE DEF new
  <1>5. /\ cli' \in [Clients -> Files] /\ stage' \in [Clients -> Stages]
        /\ inbox' \in [Clients -> SUBSET Answers]
        /\ \A d \in Clients \ {c} :
              cli'[d] = cli[d] /\ stage'[d] = stage[d] /\ inbox'[d] = inbox[d]
        /\ inbox'[c] = {}
        /\ \/ cli'[c] = new /\ stage'[c] = where
           \/ cli'[c] \in {cli[c], new} /\ stage'[c] = "idle"
    BY <1>1, <1>3, <1>4, SaveEffect DEF Stages
  <1>6. TypeOK' /\ EmptyPeer' /\ CodesApart'
    BY <1>1, <1>5 DEF IInv, TypeOK, EmptyPeer, CodesApart
  <1>7. ASSUME NEW d \in Clients \ {c} PROVE Good(d)'
    BY <1>1, <1>5, Untouched DEF IInv, SameRecord
  <1>8. CASE cli'[c] = cli[c] /\ stage'[c] = "idle"
    <2>1. FileMatches(c)'
      BY <1>1, <1>8 DEF Good, FileMatches
    <2> QED BY <1>1, <1>5, <1>6, <1>7, <1>8, <2>1, Moved DEF IInv
  <1>9. CASE cli'[c] = new /\ stage'[c] \in {"idle", "dial"}
    <2>1. FileMatches(c)'
      BY <1>2, <1>3, <1>9 DEF FileMatches
    <2>2. Mine(c)' \subseteq Mine(c)
      BY <1>3, <1>9 DEF Mine
    <2>3. Numbered(c)' /\ Memory(c)'
      BY <1>1, <2>2 DEF Good, Numbered, Memory
    <2>4. \A s \in sent : s.known \in Nat
      BY <1>1 DEF TypeOK, Requests
    <2>5. SentBehind(c)'
      BY <1>1, <1>2, <1>3, <1>9, <2>4 DEF Good, SentBehind
    <2>6. Agrees(c)' /\ AnswerProves(c)'
      BY <1>1, <1>2, <1>3, <1>5, <1>9 DEF Agrees, AnswerProves
    <2> QED BY <1>6, <1>7, <2>1, <2>3, <2>5, <2>6 DEF IInv, Good
  <1> QED BY <1>5, <1>8, <1>9

-----------------------------------------------------------------------------
(* The client's steps. *)

\* A step of one client that leaves its file alone.
LEMMA GoesGood ==
    ASSUME IInv, NEW c \in Clients, NEW where \in Stages, Goes(c, where), ClientOnly,
           cli' = cli, made' = made, sent \subseteq sent',
           \A r \in sent' \ sent : r \in cli[c].pend,
           where = "pair" => cli[c].pend # {} /\ cli[c].gen = 0,
           where \in {"renew", "query", "again"} => cli[c].pend # {} /\ cli[c].gen > 0,
           where = "dial" => cli[c].pend = {} /\ cli[c].gen > 0
    PROVE  IInv'
  <1>1. TypeOK /\ Good(c) /\ rcv' = rcv /\ attempts' = attempts /\ late' = late /\ expired' = expired
    BY DEF IInv, ClientOnly
  <1>2. /\ stage' \in [Clients -> Stages] /\ inbox' \in [Clients -> SUBSET Answers]
        /\ stage'[c] = where /\ inbox'[c] = {}
        /\ \A d \in Clients \ {c} : stage'[d] = stage[d] /\ inbox'[d] = inbox[d]
    BY <1>1 DEF Goes, TypeOK
  <1>3. \A r \in cli[c].pend : r \in Requests /\ r.client = c
    BY <1>1 DEF TypeOK, Files, Good, Numbered, Mine
  <1>4. TypeOK'
    BY <1>1, <1>2, <1>3 DEF TypeOK
  <1>5. FileMatches(c)'
    BY <1>1, <1>2 DEF Good, FileMatches
  <1>6. Good(c)'
    BY <1>1, <1>2, <1>5, Moved
  <1>7. ASSUME NEW d \in Clients \ {c} PROVE Good(d)'
    BY <1>1, <1>2, <1>3, Untouched DEF IInv, SameRecord
  <1> QED BY <1>1, <1>4, <1>6, <1>7 DEF IInv, EmptyPeer, CodesApart

\* Every step of a client keeps the invariant.
LEMMA ClientKeeps == ASSUME IInv, NEW c \in Clients, ClientStep(c) PROVE IInv'
  <1>1. /\ TypeOK /\ Good(c) /\ Numbered(c) /\ cli[c] \in Files /\ made[c] \in Nat
        /\ cli[c].gen \in Nat /\ made[c] + 1 \in Nat /\ rcv.peer.gen \in Nat
    <2>1. TypeOK /\ Good(c) /\ Numbered(c)
      BY DEF IInv, Good
    <2>2. cli[c] \in Files /\ made[c] \in Nat /\ rcv.peer \in Peers
      BY <2>1 DEF TypeOK
    <2> QED BY <2>1, <2>2 DEF Files, Peers
  <1>2. \A r \in cli[c].pend : /\ r \in Requests /\ r.known \in Nat /\ r.id \in Nat
                               /\ r.kind \in {"pair", "renew"}
    BY <1>1 DEF Files, Requests
  <1>3. ASSUME NEW a \in 1..attempts, PairClient(c, a) PROVE IInv'
    <2> DEFINE r == PairRequest(c, a, made[c] + 1)
    <2>1. a \in Nat
      BY <1>1, <1>3 DEF TypeOK
    <2>2. r \in Requests /\ r.client = c /\ r.id = made[c] + 1 /\ r.kind = "pair" /\ r.known = 0
      BY <1>1, <2>1 DEF PairRequest, Requests
    <2>3. SaveAndSend(c, r, "pair") /\ ClientOnly /\ cli[c].gen = 0
      BY <1>3 DEF PairClient, NoClient
    <2> HIDE DEF r
    <2> QED BY <2>2, <2>3, NewRequest DEF Stages, Waiting
  <1>4. CASE ResumeClient(c)
    <2>1. PICK r \in cli[c].pend : r.kind = "pair" /\ Send(c, r, "pair")
      BY <1>4 DEF ResumeClient
    <2>2. cli[c].gen = 0
      BY <1>1, <2>1 DEF Good, FileMatches
    <2> QED BY <1>4, <2>1, <2>2, GoesGood DEF ResumeClient, Send, Stages, Waiting
  <1>5. CASE PairDone(c)
    <2>1. PICK r \in cli[c].pend : Commit(c, r, "idle")
      BY <1>5 DEF PairDone
    <2>2. stage[c] = "pair" /\ inbox[c] # {} /\ cli[c].gen = 0
      BY <1>1, <1>5 DEF PairDone, Good, FileMatches
    <2>3. rcv.peer.client = c /\ rcv.peer.auth = r.id /\ r.known = 0 /\ rcv.peer.gen = 1
      BY <1>1, <2>2 DEF Good, AnswerProves, FileMatches, Agrees
    <2>4. rcv.peer.gen = r.known + 1
      BY <2>3
    <2> QED BY <1>5, <2>1, <2>3, <2>4, CommitGood DEF PairDone
  <1>6. CASE OpenResume(c)
    <2>1. PICK r \in cli[c].pend : Send(c, r, "renew")
      BY <1>6 DEF OpenResume
    <2> QED BY <1>6, <2>1, GoesGood DEF OpenResume, Send, Stages, Waiting
  <1>7. CASE OpenDial(c)
    BY <1>7, GoesGood DEF OpenDial, Stages
  <1>8. ASSUME NEW g \in Nat, NEW where \in {"renew", "again"}, cli[c].gen > 0,
               SaveAndSend(c, Renewal(c, g, made[c] + 1), where), ClientOnly,
               rcv.peer.gen \in {g, g + 1},
               \A s \in sent : s.client = c /\ s.kind = "renew" => s.known <= g
        PROVE  IInv'
    <2> DEFINE r == Renewal(c, g, made[c] + 1)
    <2>1. r \in Requests /\ r.client = c /\ r.id = made[c] + 1 /\ r.kind = "renew" /\ r.known = g
      BY <1>1 DEF Renewal, Requests
    <2>2. SaveAndSend(c, r, where)
      BY <1>8
    <2>3. where \in Stages \ {"idle"} /\ cli[c].gen # 0
      BY <1>8 DEF Stages, Waiting
    <2> HIDE DEF r
    <2> QED BY <1>8, <2>1, <2>2, <2>3, NewRequest
  <1>9. \A s \in sent : s.known \in Nat
    BY <1>1 DEF TypeOK, Requests
  <1>10. CASE OpenRenew(c)
    <2>1. /\ cli[c].gen > 0 /\ cli[c].pend = {} /\ ClientOnly
          /\ SaveAndSend(c, Renewal(c, cli[c].gen, made[c] + 1), "renew")
      BY <1>10 DEF OpenRenew
    <2>2. /\ rcv.peer.gen = cli[c].gen
          /\ \A s \in sent : s.client = c /\ s.kind = "renew" => s.known <= cli[c].gen
      BY <1>1, <1>9, <2>1 DEF Good, Agrees, SentBehind
    <2> QED BY <1>1, <1>8, <2>1, <2>2
  <1>11. CASE RenewDone(c)
    <2>1. PICK r \in cli[c].pend : Commit(c, r, "dial")
      BY <1>11 DEF RenewDone
    <2>2. stage[c] \in {"renew", "again"} /\ inbox[c] # {} /\ cli[c].gen > 0
      BY <1>1, <1>11 DEF RenewDone, Good, FileMatches
    <2>3. rcv.peer.client = c /\ rcv.peer.auth = r.id /\ rcv.peer.gen = r.known + 1
      BY <1>1, <2>2 DEF Good, AnswerProves, Agrees
    <2> QED BY <1>11, <2>1, <2>3, CommitGood DEF RenewDone
  <1>12. ASSUME NEW p \in cli[c].pend, NEW g \in {p.known, p.known + 1}, Stage(c, g), ClientOnly,
                cli[c].gen > 0, g <= rcv.peer.gen
         PROVE  IInv'
    <2>1. p.known \in Nat /\ p.kind = "renew" /\ g \in Nat
      BY <1>1, <1>2, <1>12 DEF Good, FileMatches
    <2>2. rcv.peer.gen \in {g, g + 1}
      BY <1>1, <1>12, <2>1 DEF Good, Agrees
    <2>3. \A s \in sent : s.client = c /\ s.kind = "renew" => s.known <= g
      BY <1>1, <1>9, <2>1 DEF Good, SentBehind
    <2> QED BY <1>8, <1>12, <2>1, <2>2, <2>3 DEF Stage
  <1>13. CASE RecoverExpired(c)
    <2>1. PICK r \in cli[c].pend : Stage(c, r.known + 1)
      BY <1>13 DEF RecoverExpired, Next_
    <2>2. cli[c].gen > 0 /\ rcv.peer.gen = r.known + 1 /\ ClientOnly
      BY <1>1, <1>13 DEF RecoverExpired, Good, FileMatches, AnswerProves
    <2> QED BY <1>1, <1>2, <1>12, <2>1, <2>2
  <1>14. CASE AskStatus(c)
    <2>1. cli[c].pend # {} /\ cli[c].gen > 0
      BY <1>1, <1>14 DEF AskStatus, Good, FileMatches
    <2> QED BY <1>14, <2>1, GoesGood DEF AskStatus, Stages, Waiting
  <1>15. CASE RecoverStatus(c)
    <2>1. PICK a \in inbox[c], r \in cli[c].pend :
                 a.gen \in {r.known, r.known + 1} /\ Stage(c, a.gen)
      BY <1>15 DEF RecoverStatus, Next_
    <2>2. cli[c].gen > 0 /\ a.gen <= rcv.peer.gen /\ ClientOnly
      BY <1>1, <1>15 DEF RecoverStatus, Good, FileMatches, AnswerProves
    <2> QED BY <1>12, <2>1, <2>2
  <1>16. CASE GiveUp(c)
    BY <1>16, GoesGood DEF GiveUp, Stages
  <1> QED BY <1>3, <1>4, <1>5, <1>6, <1>7, <1>10, <1>11, <1>13, <1>14, <1>15, <1>16 DEF ClientStep

-----------------------------------------------------------------------------
(* The receiver's steps. *)

\* A local operation that keeps the codes apart and the record as it was.
LEMMA ReceiverOnlyGood ==
    ASSUME IInv, ReceiverOnly, SameRecord, EmptyPeer', CodesApart',
           rcv' \in [local : BOOLEAN, attempt : Nat, peer : Peers, retired : Seq(Nat)],
           attempts' \in Nat, late' = late
    PROVE  IInv'
  <1>1. TypeOK'
    BY DEF IInv, TypeOK, ReceiverOnly
  <1>2. ASSUME NEW c \in Clients PROVE Good(c)'
    BY Untouched DEF IInv, ReceiverOnly
  <1> QED BY <1>1, <1>2 DEF IInv

\* Retiring the open code keeps the codes apart, whatever is open next.
LEMMA RetireCode ==
    ASSUME TypeOK, CodesApart, rcv.attempt # 0
    PROVE  LET new == AppendRetired(rcv.retired, rcv.attempt) IN
           /\ new \in Seq(Nat)
           /\ \A i \in 1..Len(new) : new[i] \in 1..attempts
  <1>1. rcv.retired \in Seq(Nat) /\ rcv.attempt \in 1..attempts
    BY DEF TypeOK, CodesApart
  <1> DEFINE new == AppendRetired(rcv.retired, rcv.attempt)
  <1>2. /\ new \in Seq(Nat)
        /\ \A i \in 1..Len(new) : new[i] = rcv.attempt \/ \E j \in 1..Len(rcv.retired) : new[i] = rcv.retired[j]
    BY <1>1, AppendRetiredRange
  <1> HIDE DEF new
  <1>3. \A i \in 1..Len(new) : new[i] \in 1..attempts
    BY <1>1, <1>2 DEF CodesApart
  <1> QED BY <1>2, <1>3 DEF new

\* Every local operation of the receiver keeps the invariant.
LEMMA LocalKeeps == ASSUME IInv, LocalStep PROVE IInv'
  <1> DEFINE Record == [local : BOOLEAN, attempt : Nat, peer : Peers, retired : Seq(Nat)]
  <1>1. /\ TypeOK /\ EmptyPeer /\ CodesApart /\ rcv \in Record /\ rcv.peer \in Peers
        /\ rcv.attempt \in Nat /\ rcv.retired \in Seq(Nat) /\ attempts \in Nat
    BY DEF IInv, TypeOK
  <1>2. CASE CreateAttempt
    <2> DEFINE old == IF rcv.attempt = 0 THEN rcv.retired ELSE AppendRetired(rcv.retired, rcv.attempt)
    <2>1. old \in Seq(Nat) /\ \A i \in 1..Len(old) : old[i] \in 1..attempts
      <3>1. CASE rcv.attempt = 0
        BY <1>1, <3>1 DEF CodesApart
      <3>2. CASE rcv.attempt # 0
        BY <1>1, <3>2, RetireCode
      <3> QED BY <3>1, <3>2
    <2>2. /\ rcv' = [rcv EXCEPT !.attempt = attempts + 1, !.retired = old]
          /\ attempts' = attempts + 1 /\ ReceiverOnly /\ late' = late
      BY <1>2 DEF CreateAttempt
    <2> HIDE DEF old
    <2>3. rcv' \in Record /\ rcv'.peer = rcv.peer /\ rcv'.attempt = attempts + 1 /\ rcv'.retired = old
      <3>1. attempts + 1 \in Nat /\ old \in Seq(Nat) /\ rcv \in Record
        BY <1>1, <2>1
      <3> QED BY <2>2, <3>1
    <2>4. CodesApart'
      BY <1>1, <2>1, <2>2, <2>3 DEF CodesApart
    <2> QED BY <1>1, <2>2, <2>3, <2>4, ReceiverOnlyGood DEF SameRecord, EmptyPeer
  <1>3. CASE CancelAttempt
    <2> DEFINE old == AppendRetired(rcv.retired, rcv.attempt)
    <2>1. old \in Seq(Nat) /\ \A i \in 1..Len(old) : old[i] \in 1..attempts
      BY <1>1, <1>3, RetireCode DEF CancelAttempt
    <2>2. /\ rcv' = [rcv EXCEPT !.attempt = 0, !.retired = old]
          /\ attempts' = attempts /\ ReceiverOnly /\ late' = late
      BY <1>3 DEF CancelAttempt
    <2> HIDE DEF old
    <2>3. rcv' \in Record /\ rcv'.peer = rcv.peer /\ rcv'.attempt = 0 /\ rcv'.retired = old
      BY <1>1, <2>1, <2>2
    <2>4. CodesApart'
      BY <1>1, <2>1, <2>2, <2>3 DEF CodesApart
    <2> QED BY <1>1, <2>2, <2>3, <2>4, ReceiverOnlyGood DEF SameRecord, EmptyPeer
  <1>4. ASSUME rcv' \in Record, SameRecord, EmptyPeer', ReceiverOnly,
               rcv'.attempt = rcv.attempt, rcv'.retired = rcv.retired, attempts' = attempts, late' = late
        PROVE  IInv'
    <2>1. CodesApart'
      BY <1>1, <1>4 DEF CodesApart
    <2> QED BY <1>1, <1>4, <2>1, ReceiverOnlyGood
  <1>5. ASSUME NEW b \in BOOLEAN, SetLocalLocked(b) PROVE IInv'
    <2>1. rcv' \in Record /\ rcv'.peer = rcv.peer /\ rcv'.attempt = rcv.attempt /\ rcv'.retired = rcv.retired
      BY <1>1, <1>5 DEF SetLocalLocked
    <2> QED BY <1>1, <1>4, <1>5, <2>1 DEF SetLocalLocked, SameRecord, EmptyPeer
  <1>6. ASSUME NEW b \in BOOLEAN, NEW d \in BOOLEAN, ReceiverOnly, attempts' = attempts, late' = late,
               NEW l \in BOOLEAN, 
               rcv' = [rcv EXCEPT !.local = l, !.peer.locked = b, !.peer.revoked = d],
               Paired \/ (b = FALSE /\ d = FALSE)
        PROVE  IInv'
    <2>1. rcv' \in Record /\ rcv'.attempt = rcv.attempt /\ rcv'.retired = rcv.retired /\ SameRecord
      BY <1>1, <1>6 DEF Peers, SameRecord
    <2>2. rcv'.peer = [rcv.peer EXCEPT !.locked = b, !.revoked = d]
      BY <1>1, <1>6
    <2>3. EmptyPeer'
      <3> SUFFICES ASSUME rcv'.peer.client = None PROVE rcv'.peer = NoPeer
        BY DEF EmptyPeer
      <3>1. rcv.peer = NoPeer /\ b = FALSE /\ d = FALSE
        BY <1>1, <1>6, <2>1 DEF EmptyPeer, Paired, SameRecord
      <3>2. rcv'.peer \in Peers
        BY <2>1
      <3>3. /\ rcv'.peer.attempt = 0 /\ rcv'.peer.initial = 0 /\ rcv'.peer.gen = 0
            /\ rcv'.peer.auth = 0 /\ rcv'.peer.last = 0
            /\ rcv'.peer.locked = FALSE /\ rcv'.peer.revoked = FALSE
        BY <1>1, <2>2, <3>1 DEF NoPeer, Peers
      <3> QED BY <3>2, <3>3 DEF NoPeer, Peers
    <2> QED BY <1>4, <1>6, <2>1, <2>3
  <1>7. ASSUME NEW b \in BOOLEAN, SetPeerLocked(b) PROVE IInv'
    <2>1. rcv' = [rcv EXCEPT !.local = rcv.local, !.peer.locked = b, !.peer.revoked = rcv.peer.revoked]
      BY <1>1, <1>7 DEF SetPeerLocked, Peers
    <2>2. rcv.local \in BOOLEAN /\ rcv.peer.revoked \in BOOLEAN
      BY <1>1 DEF Peers
    <2> QED BY <1>6, <1>7, <2>1, <2>2 DEF SetPeerLocked
  <1>8. CASE RevokePeer
    <2>1. rcv' = [rcv EXCEPT !.local = rcv.local, !.peer.locked = TRUE, !.peer.revoked = TRUE]
      BY <1>1, <1>8 DEF RevokePeer, Peers
    <2>2. rcv.local \in BOOLEAN
      BY <1>1
    <2> QED BY <1>6, <1>8, <2>1, <2>2 DEF RevokePeer
  <1>9. ASSUME NEW p \in Clients \union {None}, RetireForReplacement(p) PROVE IInv'
    <2>1. Paired \in BOOLEAN
      BY DEF Paired
    <2> QED BY <1>6, <1>9, <2>1 DEF RetireForReplacement
  <1> QED BY <1>2, <1>3, <1>5, <1>7, <1>8, <1>9 DEF LocalStep

-----------------------------------------------------------------------------
(* The receiver's answers. *)

\* Serving a request touches no client's file, operation or request.
LEMMA ServedKeeps ==
    ASSUME Served, NEW c \in Clients, Good(c)
    PROVE  /\ Numbered(c)' /\ FileMatches(c)' /\ SentBehind(c)'
           /\ Mine(c)' = Mine(c) /\ made'[c] = made[c]
           /\ cli'[c] = cli[c] /\ stage'[c] = stage[c]
  <1>1. UNCHANGED <<cli, stage, sent, made>>
    BY DEF Served
  <1> QED BY <1>1 DEF Good, Mine, Numbered, FileMatches, SentBehind

\* An answer is lost, or reaches the client that has the request pending.
LEMMA AnswerEffect ==
    ASSUME TypeOK, NEW r \in sent, Answer(r, Grant(r))
    PROVE  /\ inbox' \in [Clients -> SUBSET Answers]
           /\ \A d \in Clients \ {r.client} : inbox'[d] = inbox[d]
           /\ \/ inbox'[r.client] = inbox[r.client]
              \/ r \in cli[r.client].pend /\ stage[r.client] \in {"pair", "renew", "again"}
  <1>1. r \in Requests /\ r.client \in Clients
    BY DEF TypeOK, Requests
  <1>2. Grant(r) \in SUBSET Answers
    BY <1>1, AnswerTypes
  <1> HIDE DEF Grant
  <1> QED BY <1>1, <1>2 DEF Answer, TypeOK

\* A client has one request pending.
LEMMA OnePending ==
    ASSUME NEW c \in Clients, Good(c) PROVE \A r, s \in cli[c].pend : r = s
  BY DEF Good, FileMatches, Numbered, Mine

\* The stored answer, again.
LEMMA RepeatKeeps == ASSUME IInv, NEW r \in sent, Repeat(r) PROVE IInv'
  <1> DEFINE c == r.client
  <1>1. /\ TypeOK /\ c \in Clients /\ Good(c) /\ rcv' = rcv /\ Served /\ Remembered(r)
        /\ r.kind \in {"pair", "renew"}
    BY DEF IInv, TypeOK, Requests, Repeat
  <1>2. /\ inbox' \in [Clients -> SUBSET Answers]
        /\ \A d \in Clients \ {c} : inbox'[d] = inbox[d]
        /\ \/ inbox'[c] = inbox[c]
           \/ r \in cli[c].pend /\ stage[c] \in {"pair", "renew", "again"}
    BY <1>1, AnswerEffect DEF Repeat
  <1>3. TypeOK' /\ EmptyPeer' /\ CodesApart'
    BY <1>1, <1>2 DEF IInv, TypeOK, EmptyPeer, CodesApart, Served
  <1>4. ASSUME NEW d \in Clients, inbox'[d] = inbox[d] PROVE Good(d)'
    BY <1>1, <1>4, Untouched DEF IInv, SameRecord, Served
  <1>5. CASE r \in cli[c].pend /\ stage[c] \in {"pair", "renew", "again"}
    <2>1. /\ Numbered(c)' /\ FileMatches(c)' /\ SentBehind(c)'
          /\ Mine(c)' = Mine(c) /\ made'[c] = made[c]
          /\ cli'[c] = cli[c] /\ stage'[c] = stage[c]
      BY <1>1, ServedKeeps
    <2>2. Agrees(c)' /\ Memory(c)'
      BY <1>1, <2>1 DEF Good, Agrees, Memory
    <2>3. rcv.peer.client = c /\ r.id = IF r.kind = "pair" THEN rcv.peer.initial ELSE rcv.peer.last
      BY <1>1 DEF Remembered
    <2>4. stage[c] = "pair" => rcv.peer.auth = r.id
      BY <1>1, <1>5, <2>3 DEF Good, FileMatches, Agrees
    <2>5. stage[c] \in {"renew", "again"} => rcv.peer.gen = r.known + 1 /\ rcv.peer.auth = r.id
      BY <1>1, <1>5, <2>3 DEF Good, FileMatches, Memory, Mine
    <2>6. AnswerProves(c)'
      BY <1>1, <1>5, <2>1, <2>3, <2>4, <2>5, OnePending DEF AnswerProves
    <2>7. Good(c)'
      BY <2>1, <2>2, <2>6 DEF Good
    <2> QED BY <1>2, <1>3, <1>4, <2>7 DEF IInv
  <1> QED BY <1>1, <1>2, <1>3, <1>4, <1>5 DEF IInv

\* The code is spent: the first claim makes the peer, for all clients.
LEMMA ClaimKeeps == ASSUME IInv, NEW r \in sent, Claim(r) PROVE IInv'
  <1> DEFINE c == r.client
             peer == [NoPeer EXCEPT !.client = r.client, !.attempt = r.attempt,
                                    !.initial = r.id, !.gen = 1, !.auth = r.id]
             old == AppendRetired(rcv.retired, r.attempt)
  <1>1. /\ TypeOK /\ EmptyPeer /\ CodesApart /\ Served /\ r \in Requests /\ c \in Clients
        /\ r.id \in Nat /\ r.attempt \in Nat
        /\ rcv \in [local : BOOLEAN, attempt : Nat, peer : Peers, retired : Seq(Nat)]
    BY DEF IInv, TypeOK, Requests, Claim
  <1>2. /\ rcv.peer = NoPeer /\ r.kind = "pair" /\ rcv.attempt # 0 /\ r.attempt = rcv.attempt
    BY DEF Claim, Claimable, Paired
  <1>3. old \in Seq(Nat) /\ \A i \in 1..Len(old) : old[i] \in 1..attempts
    BY <1>1, <1>2, RetireCode
  <1>4. /\ peer \in Peers /\ peer.client = c /\ peer.gen = 1 /\ peer.auth = r.id
        /\ peer.initial = r.id /\ peer.last = 0
    BY <1>1 DEF NoPeer, Peers
  <1>5. rcv' = [rcv EXCEPT !.peer = peer, !.attempt = 0, !.retired = old]
    BY DEF Claim
  <1> HIDE DEF peer, old
  <1>6. /\ rcv' \in [local : BOOLEAN, attempt : Nat, peer : Peers, retired : Seq(Nat)]
        /\ rcv'.peer = peer /\ rcv'.attempt = 0 /\ rcv'.retired = old
    BY <1>1, <1>3, <1>4, <1>5
  <1>7. /\ inbox' \in [Clients -> SUBSET Answers]
        /\ \A d \in Clients \ {c} : inbox'[d] = inbox[d]
        /\ \/ inbox'[c] = inbox[c]
           \/ r \in cli[c].pend /\ stage[c] \in {"pair", "renew", "again"}
    BY <1>1, AnswerEffect DEF Claim
  <1>8. TypeOK' /\ EmptyPeer' /\ CodesApart'
    <2>1. TypeOK'
      BY <1>1, <1>6, <1>7 DEF TypeOK, Served
    <2>2. EmptyPeer'
      BY <1>1, <1>4, <1>6, PairingAssumption DEF EmptyPeer
    <2>3. CodesApart'
      BY <1>1, <1>3, <1>6 DEF CodesApart, Served, TypeOK
    <2> QED BY <2>1, <2>2, <2>3
  <1>9. ASSUME NEW d \in Clients PROVE Good(d)'
    <2>1. Good(d) /\ cli[d].gen \in Nat /\ rcv.peer.client # d
      BY <1>1, <1>2, PairingAssumption DEF IInv, TypeOK, Files, NoPeer
    <2>2. cli[d].gen = 0
      BY <2>1 DEF Good, Agrees
    <2>3. /\ Numbered(d)' /\ FileMatches(d)' /\ SentBehind(d)'
          /\ Mine(d)' = Mine(d) /\ made'[d] = made[d]
          /\ cli'[d] = cli[d] /\ stage'[d] = stage[d]
      BY <1>1, <2>1, ServedKeeps
    <2>4. Agrees(d)'
      BY <1>4, <1>6, <2>1, <2>2, <2>3 DEF Good, FileMatches, Agrees
    <2>5. Memory(d)'
      BY <1>1, <1>4, <1>6, <2>1, <2>3 DEF Good, Numbered, Memory, TypeOK
    <2>6. stage[d] # "pair" => stage[d] \notin {"renew", "again", "query"}
      BY <2>1, <2>2 DEF Good, FileMatches
    <2>7. stage[d] = "pair" => inbox[d] = {}
      BY <2>1 DEF Good, FileMatches, AnswerProves
    <2>8. AnswerProves(d)'
      BY <1>4, <1>6, <1>7, <2>1, <2>3, <2>6, <2>7, OnePending DEF AnswerProves
    <2> QED BY <2>3, <2>4, <2>5, <2>8 DEF Good
  <1> QED BY <1>8, <1>9 DEF IInv

\* The next generation is committed, for the request that is pending or for an
\* older one of the same generation.
LEMMA RenewKeeps == ASSUME IInv, NEW r \in sent, Renew(r) PROVE IInv'
  <1> DEFINE c == r.client
             peer == [rcv.peer EXCEPT !.gen = r.known + 1, !.auth = r.id, !.last = r.id]
  <1>1. /\ TypeOK /\ EmptyPeer /\ CodesApart /\ Served /\ r \in Requests /\ c \in Clients
        /\ r.id \in Nat /\ r.known \in Nat /\ Good(c) /\ rcv.peer \in Peers /\ rcv.peer.gen \in Nat
        /\ rcv \in [local : BOOLEAN, attempt : Nat, peer : Peers, retired : Seq(Nat)]
    BY DEF IInv, TypeOK, Requests, Renew, Peers
  <1>2. r.kind = "renew" /\ rcv.peer.client = c /\ r.known = rcv.peer.gen
    BY <1>1 DEF Renew, Renewable, Next_
  <1>3. /\ peer \in Peers /\ peer.client = c /\ peer.gen = r.known + 1 /\ peer.auth = r.id
        /\ peer.last = r.id
    <2>1. r.known + 1 \in Nat
      BY <1>1
    <2> QED BY <1>1, <1>2, <2>1 DEF Peers
  <1>4. rcv' = [rcv EXCEPT !.peer = peer]
    BY <1>1 DEF Renew, Next_
  <1> HIDE DEF peer
  <1>5. /\ rcv' \in [local : BOOLEAN, attempt : Nat, peer : Peers, retired : Seq(Nat)]
        /\ rcv'.peer = peer /\ rcv'.attempt = rcv.attempt /\ rcv'.retired = rcv.retired
    BY <1>1, <1>3, <1>4
  <1>6. /\ inbox' \in [Clients -> SUBSET Answers]
        /\ \A d \in Clients \ {c} : inbox'[d] = inbox[d]
        /\ \/ inbox'[c] = inbox[c]
           \/ r \in cli[c].pend /\ stage[c] \in {"pair", "renew", "again"}
    BY <1>1, AnswerEffect DEF Renew
  <1>7. TypeOK' /\ EmptyPeer' /\ CodesApart'
    <2>1. TypeOK'
      BY <1>1, <1>5, <1>6 DEF TypeOK, Served
    <2>2. EmptyPeer'
      BY <1>1, <1>3, <1>5, PairingAssumption DEF EmptyPeer
    <2>3. CodesApart'
      BY <1>1, <1>5 DEF CodesApart, Served
    <2> QED BY <2>1, <2>2, <2>3
  <1>8. ASSUME NEW d \in Clients \ {c} PROVE Good(d)'
    <2>1. Good(d) /\ cli[d].gen \in Nat /\ rcv.peer.client # d
      BY <1>1, <1>2 DEF IInv, TypeOK, Files
    <2>2. cli[d].gen = 0
      BY <2>1 DEF Good, Agrees
    <2>3. /\ Numbered(d)' /\ FileMatches(d)' /\ SentBehind(d)'
          /\ Mine(d)' = Mine(d) /\ made'[d] = made[d]
          /\ cli'[d] = cli[d] /\ stage'[d] = stage[d]
      BY <1>1, <2>1, ServedKeeps
    <2>4. Agrees(d)' /\ Memory(d)'
      BY <1>3, <1>5, <2>1, <2>2, <2>3 DEF Good, FileMatches, Agrees, Memory
    <2>5. stage[d] # "pair" => stage[d] \notin {"renew", "again", "query"}
      BY <2>1, <2>2 DEF Good, FileMatches
    <2>6. stage[d] = "pair" => inbox[d] = {}
      BY <2>1 DEF Good, FileMatches, AnswerProves
    <2>7. AnswerProves(d)'
      BY <1>6, <2>3, <2>5, <2>6 DEF AnswerProves
    <2> QED BY <2>3, <2>4, <2>7 DEF Good
  <1>9. Good(c)'
    <2>1. /\ Numbered(c)' /\ FileMatches(c)' /\ SentBehind(c)'
          /\ Mine(c)' = Mine(c) /\ made'[c] = made[c]
          /\ cli'[c] = cli[c] /\ stage'[c] = stage[c]
      BY <1>1, ServedKeeps
    <2>2. cli[c].gen \in Nat /\ \A p \in cli[c].pend : p.known \in Nat /\ p.kind \in {"pair", "renew"}
      <3>1. cli[c] \in Files
        BY <1>1 DEF TypeOK
      <3>2. cli[c].gen \in Nat /\ cli[c].pend \in SUBSET Requests
        BY <3>1 DEF Files
      <3> QED BY <3>2 DEF Requests
    <2>3. cli[c].gen > 0 /\ cli[c].pend # {} /\ \A p \in cli[c].pend : r.known <= p.known
      BY <1>1, <1>2, <2>2 DEF Good, SentBehind, Agrees
    <2>4. \A p \in cli[c].pend : p.kind = "renew" /\ p.known = r.known
      BY <1>1, <1>2, <2>2, <2>3 DEF Good, FileMatches, Agrees
    <2>5. Agrees(c)'
      BY <1>3, <1>5, <2>1, <2>3, <2>4 DEF Agrees
    <2>6. r \in Mine(c)
      BY DEF Mine
    <2>7. Memory(c)'
      BY <1>1, <1>3, <1>5, <2>1, <2>6 DEF Good, Numbered, Memory, TypeOK
    <2>8. stage[c] \in {"renew", "again"} => inbox[c] = {}
      BY <1>1, <1>2, <2>2, <2>3, <2>4 DEF Good, AnswerProves
    <2>9. stage[c] # "pair"
      BY <1>1, <2>3 DEF Good, FileMatches
    <2>10. AnswerProves(c)'
      <3>1. CASE stage[c] \in {"renew", "again"}
        BY <1>1, <1>3, <1>5, <1>6, <2>1, <2>8, <3>1, OnePending DEF AnswerProves
      <3>2. CASE stage[c] = "query"
        <4>1. \A a \in inbox[c] : a.gen \in Nat
          BY <1>1 DEF TypeOK, Answers
        <4> QED BY <1>1, <1>2, <1>3, <1>5, <1>6, <2>1, <3>2, <4>1 DEF Good, AnswerProves
      <3>3. CASE stage[c] \notin {"pair", "renew", "again", "query"}
        BY <2>1, <3>3 DEF AnswerProves
      <3> QED BY <2>9, <3>1, <3>2, <3>3
    <2> QED BY <2>1, <2>5, <2>7, <2>10 DEF Good
  <1> QED BY <1>7, <1>8, <1>9 DEF IInv

\* A status answer reports the generation that is committed.
LEMMA StatusKeeps ==
    ASSUME IInv, NEW c \in Clients, stage[c] = "query", NEW r \in cli[c].pend, RenewalStatus(r)
    PROVE  IInv'
  <1>1. /\ TypeOK /\ Good(c) /\ r \in Requests /\ r.client = c /\ rcv' = rcv /\ Served
        /\ rcv.peer.gen \in Nat /\ rcv.peer.gen \in {r.known, r.known + 1}
    <2>1. TypeOK /\ Good(c) /\ rcv' = rcv /\ Served /\ rcv.peer.gen \in {r.known, r.known + 1}
      BY DEF IInv, RenewalStatus, Reportable
    <2>2. cli[c] \in Files /\ rcv.peer \in Peers
      BY <2>1 DEF TypeOK
    <2> QED BY <2>1, <2>2 DEF Files, Peers, Good, Numbered, Mine
  <1> DEFINE box == Snapshot(r, rcv.peer.gen)
  <1>2. box \in SUBSET Answers /\ \A a \in box : a.gen = rcv.peer.gen
    BY <1>1, AnswerTypes DEF Snapshot
  <1>3. inbox' = [inbox EXCEPT ![c] = box]
    BY <1>1 DEF RenewalStatus
  <1> HIDE DEF box
  <1>4. /\ inbox' \in [Clients -> SUBSET Answers] /\ inbox'[c] = box
        /\ \A d \in Clients \ {c} : inbox'[d] = inbox[d]
    BY <1>1, <1>2, <1>3 DEF TypeOK
  <1>5. TypeOK' /\ EmptyPeer' /\ CodesApart'
    BY <1>1, <1>4 DEF IInv, TypeOK, EmptyPeer, CodesApart, Served
  <1>6. ASSUME NEW d \in Clients \ {c} PROVE Good(d)'
    BY <1>1, <1>4, Untouched DEF IInv, SameRecord, Served
  <1>7. /\ Numbered(c)' /\ FileMatches(c)' /\ SentBehind(c)'
        /\ Mine(c)' = Mine(c) /\ made'[c] = made[c]
        /\ cli'[c] = cli[c] /\ stage'[c] = stage[c]
    BY <1>1, ServedKeeps
  <1>8. Agrees(c)' /\ Memory(c)'
    BY <1>1, <1>7 DEF Good, Agrees, Memory
  <1>9. AnswerProves(c)'
    BY <1>1, <1>2, <1>4, <1>7, OnePending DEF AnswerProves
  <1> QED BY <1>5, <1>6, <1>7, <1>8, <1>9 DEF IInv, Good

-----------------------------------------------------------------------------
(* The specification. *)

\* Time passes: no client and no record changes.
LEMMA TimeKeeps ==
    ASSUME IInv, UNCHANGED <<rcv, cli, stage, inbox, sent, attempts, made>>,
           expired' \in SUBSET Requests, late' \in SUBSET Nat
    PROVE  IInv'
  <1>1. TypeOK' /\ EmptyPeer' /\ CodesApart'
    BY DEF IInv, TypeOK, EmptyPeer, CodesApart
  <1>2. ASSUME NEW c \in Clients PROVE Good(c)'
    BY Untouched DEF IInv, SameRecord
  <1> QED BY <1>1, <1>2 DEF IInv

\* Nothing is paired, pending or sent at first.
LEMMA InitIInv == PairingInit => IInv
  <1> SUFFICES ASSUME PairingInit PROVE IInv
    OBVIOUS
  <1>1. NoPeer \in Peers /\ NoClient \in Files
    BY DEF NoPeer, Peers, NoClient, Files
  <1>2. TypeOK
    BY <1>1 DEF PairingInit, TypeOK, Stages
  <1>3. EmptyPeer /\ CodesApart
    BY DEF PairingInit, EmptyPeer, CodesApart
  <1>4. ASSUME NEW c \in Clients PROVE Good(c)
    <2>1. /\ cli[c].pend = {} /\ cli[c].gen = 0 /\ stage[c] = "idle" /\ inbox[c] = {} /\ sent = {}
          /\ rcv.peer.client # c
      BY PairingAssumption DEF PairingInit, NoClient, NoPeer
    <2> QED BY <2>1 DEF Good, Mine, Numbered, FileMatches, SentBehind, Agrees, Memory, AnswerProves
  <1> QED BY <1>2, <1>3, <1>4 DEF IInv

\* Every step keeps the invariant.
LEMMA NextIInv == IInv /\ [PairingNext]_pairingVars => IInv'
  <1> SUFFICES ASSUME IInv, [PairingNext]_pairingVars PROVE IInv'
    OBVIOUS
  <1>1. CASE LocalStep
    BY <1>1, LocalKeeps
  <1>2. CASE Exchange
    BY <1>2, RepeatKeeps, ClaimKeeps, RenewKeeps, StatusKeeps DEF Exchange
  <1>3. ASSUME NEW c \in Clients, ClientStep(c) PROVE IInv'
    BY <1>3, ClientKeeps
  <1>4. sent \union Pending \subseteq Requests
    BY DEF IInv, TypeOK, Pending, Files
  <1>5. ASSUME NEW r \in sent \union Pending, Expire(r) PROVE IInv'
    <2>1. expired' \in SUBSET Requests /\ late' \in SUBSET Nat
      BY <1>4, <1>5 DEF Expire, IInv, TypeOK
    <2> QED BY <1>5, <2>1, TimeKeeps DEF Expire
  <1>6. ASSUME NEW a \in 1..attempts, ExpireAttempt(a) PROVE IInv'
    <2>1. expired' \in SUBSET Requests /\ late' \in SUBSET Nat
      BY <1>4, <1>6 DEF ExpireAttempt, IInv, TypeOK
    <2> QED BY <1>6, <2>1, TimeKeeps DEF ExpireAttempt
  <1>7. CASE UNCHANGED pairingVars
    <2>1. expired' \in SUBSET Requests /\ late' \in SUBSET Nat
      BY <1>7 DEF pairingVars, IInv, TypeOK
    <2> QED BY <1>7, <2>1, TimeKeeps DEF pairingVars
  <1> QED BY <1>1, <1>2, <1>3, <1>5, <1>6, <1>7 DEF PairingNext

(* The strengthened invariant: it holds of every reachable state.              *)
THEOREM Inductive == PairingSpec => []IInv
  BY InitIInv, NextIInv, PTL DEF PairingSpec

(* The receiver's record, the clients' files, the messages and the counters     *)
(* keep their types (store.go:50-106, client.go:37-65).                         *)
THEOREM TypeCorrect == PairingSpec => []TypeOK
  <1>1. IInv => TypeOK
    BY DEF IInv
  <1> QED BY <1>1, Inductive, PTL

(* A client that holds credentials is the receiver's one peer, it dials with     *)
(* exactly the credentials the receiver has on record, and a pending renewal is *)
(* never outside what RenewalStatus answers, whatever was lost, delayed,        *)
(* repeated, expired or half written.                                           *)
THEOREM TogetherAlways == PairingSpec => []PeersTogether
  <1>1. IInv => PeersTogether
    <2> SUFFICES ASSUME IInv, NEW c \in Clients
                 PROVE  /\ cli[c].gen > 0 => rcv.peer.client = c
                        /\ stage[c] = "dial" => rcv.peer.gen = cli[c].gen /\ rcv.peer.auth = cli[c].auth
                        /\ \A r \in cli[c].pend : r.kind = "renew" => rcv.peer.gen \in {r.known, Next_(r)}
      BY DEF PeersTogether, DialAgrees, Reconcilable
    <2> QED BY DEF IInv, Good, Agrees, FileMatches, Next_
  <1> QED BY <1>1, Inductive, PTL

(* A code that was cancelled, replaced or spent never pairs anyone, although     *)
(* the list that remembers retired codes is bounded (appendRetiredCode).        *)
THEOREM RetiredNever == PairingSpec => RetiredNeverPairs
  <1> DEFINE A == rcv'.peer.client # rcv.peer.client =>
                    \A i \in 1..Len(rcv.retired) : rcv.retired[i] # rcv'.peer.attempt
  <1>1. IInv /\ [PairingNext]_pairingVars => [A]_pairingVars
    <2> SUFFICES ASSUME IInv, PairingNext, rcv'.peer.client # rcv.peer.client
                 PROVE  \A i \in 1..Len(rcv.retired) : rcv.retired[i] # rcv'.peer.attempt
      BY DEF pairingVars
    <2>1. rcv.peer \in Peers /\ rcv \in [local : BOOLEAN, attempt : Nat, peer : Peers, retired : Seq(Nat)]
      BY DEF IInv, TypeOK
    <2>2. PICK r \in sent : Claim(r)
      <3>1. CASE LocalStep
        <4>1. CASE CreateAttempt \/ CancelAttempt
          BY <2>1, <4>1 DEF CreateAttempt, CancelAttempt
        <4>2. CASE RevokePeer \/ \E b \in BOOLEAN : SetLocalLocked(b) \/ SetPeerLocked(b)
          BY <2>1, <4>2 DEF RevokePeer, SetLocalLocked, SetPeerLocked, Peers
        <4>3. CASE \E p \in Clients \union {None} : RetireForReplacement(p)
          <5>1. rcv' = [rcv EXCEPT !.local = TRUE, !.peer.locked = Paired, !.peer.revoked = Paired]
            BY <4>3 DEF RetireForReplacement
          <5> QED BY <2>1, <5>1 DEF Peers
        <4> QED BY <3>1, <4>1, <4>2, <4>3 DEF LocalStep
      <3>2. CASE rcv' = rcv
        BY <3>2
      <3>3. ASSUME NEW r \in sent, Renew(r) PROVE FALSE
        BY <2>1, <3>3 DEF Renew, Peers
      <3>4. CASE Exchange
        BY <3>2, <3>3, <3>4 DEF Exchange, Repeat, RenewalStatus
      <3>5. ASSUME NEW c \in Clients, ClientStep(c) PROVE rcv' = rcv
        BY <3>5 DEF ClientStep, ClientOnly, PairClient, ResumeClient, PairDone, OpenResume, OpenDial,
                    OpenRenew, RenewDone, RecoverExpired, AskStatus, RecoverStatus, GiveUp
      <3> QED BY <3>1, <3>2, <3>4, <3>5 DEF PairingNext, Expire, ExpireAttempt
    <2>3. rcv'.peer.attempt = rcv.attempt
      BY <2>1, <2>2 DEF Claim, Claimable, NoPeer
    <2> QED BY <2>3 DEF IInv, CodesApart
  <1> QED BY <1>1, Inductive, PTL DEF PairingSpec, RetiredNeverPairs
=============================================================================
