-------------------------- MODULE EventStoreProofs --------------------------
(***************************************************************************)
(* Proofs about the broker's store, for any set of workflows, any limits   *)
(* and any number of crashes and failures, whatever these leave of a line. *)
(*                                                                         *)
(* Three invariants, each over the ones before it.  IInv: what is stored   *)
(* can be read, and every call was decided on something real.  Stored: a   *)
(* body that is referenced is there, or was exposed.  Sound, while no      *)
(* event was lost under the number of another: the broker's state is Near  *)
(* the recovered one, the same but for what retention has dropped, or Near *)
(* it after one event of a failed write.  An event that fits the one fits  *)
(* the other, and each file that a compaction replaces is replaced by the  *)
(* broker's state, over which the older lines of the ledger are skipped.   *)
(***************************************************************************)
EXTENDS EventStore, TLAPS, FiniteSetTheorems, SequenceTheorems, WellFoundedInduction

(* A state can be read: its parts have their types, and every body is the   *)
(* workflow's own.                                                          *)
StateOK(s) ==
  /\ s = [next |-> s.next, wf |-> s.wf, ops |-> s.ops]
  /\ s.next \in Nat \ {0}
  /\ DOMAIN s.wf \subseteq Workflow /\ s.wf \in [DOMAIN s.wf -> Record]
  /\ DOMAIN s.ops \subseteq Key /\ s.ops \in [DOMAIN s.ops -> Workflow]
  /\ \A w \in DOMAIN s.wf :
       s.wf[w].at < s.next /\ s.wf[w].body \in {None, BodyOf[w]}

(* Every workflow is the one its key names, and the key of a convergence is *)
(* known before its review is.                                              *)
ParentsKnown(s, w) == \A v \in Workflow : ChildOf[v] = w => KeyOf[v] \in DOMAIN s.ops
Named(s) ==
  \A w \in DOMAIN s.wf :
    /\ KeyOf[w] \in DOMAIN s.ops /\ s.ops[KeyOf[w]] = w
    /\ ParentsKnown(s, w)

(* State m is state r without some of what retention may drop.              *)
Kept(r, m) ==
  \A w \in DOMAIN m.wf :
    \/ m.wf[w] = r.wf[w]
    \/ w \in Unprotected(r) /\ m.wf[w] = [r.wf[w] EXCEPT !.body = None]
Near(r, m) ==
  /\ r.next = m.next /\ r.ops = m.ops
  /\ DOMAIN m.wf \subseteq DOMAIN r.wf
  /\ DOMAIN r.wf \ DOMAIN m.wf \subseteq Unprotected(r)
  /\ Kept(r, m)

(* The events that are ever written, and one that may follow the state s.   *)
Written == {e \in Event : e.rec.at = e.seq /\ e.rec.body \in {None, BodyOf[e.w]}}
Line == Written \cup {Torn}
Fits(s, e) ==
  /\ e \in Written /\ e.seq = s.next
  /\ e.starts =>
       /\ e.rec.status = "running"
       /\ KeyOf[e.w] \notin DOMAIN s.ops /\ e.w \notin DOMAIN s.wf
  /\ ~e.starts =>
       /\ e.w \in DOMAIN s.wf /\ s.wf[e.w].status # "ended"
       /\ ChildOf[e.w] # None /\ AwaitsReview(e.rec) => AwaitsReview(s.wf[e.w])

Calls == [kind : {"start"}, w : Workflow, parents : SUBSET (Workflow \X Record)]
           \cup [kind : {"put"}, w : Workflow]
           \cup [kind : {"persist"}, w : Workflow, expected : Record, next : Record]

Shape ==
  /\ StateOK(mem)
  /\ ledger \in Seq(Line)
  /\ pins \subseteq Digest /\ blobs \subseteq Digest /\ held \subseteq Workflow
  /\ exposed \subseteq Digest /\ fork \in {"no", "open", "lost"}
  /\ admitted \subseteq Key \X Workflow
  /\ queue \in Seq(Calls)
  /\ since \in Nat
  /\ pc \in {"down", "init", "idle", "put", "append", "compact"} \cup Compacting
  /\ after \in {"idle", "answer", "put", "append", "init"}

(* The call that waits for a compaction is at the head of the queue; one    *)
(* that is to be answered has been carried out.                             *)
Busy == {"compact"} \cup Compacting
Waits ==
  /\ pc \in {"put", "append"} \/ (pc \in Busy /\ after # "init") => queue # <<>>
  /\ after = "answer" =>
       /\ pc \in Busy
       /\ Call.kind = "start" =>
            KeyOf[Call.w] \in DOMAIN mem.ops /\ mem.ops[KeyOf[Call.w]] = Call.w

(* What a step was decided on: an earlier record that had not ended, and    *)
(* that awaited a review if the next one does.                              *)
Founded(c, s) ==
  c.kind = "persist" =>
    /\ c.expected.at < s.next /\ c.expected.status # "ended"
    /\ c.expected.body \in {None, BodyOf[c.w]}
    /\ c.next.body \in {c.expected.body, BodyOf[c.w]}
    /\ ChildOf[c.w] # None /\ AwaitsReview(c.next) => AwaitsReview(c.expected)
Queued == \A i \in DOMAIN queue : Founded(queue[i], mem)

(* Which files a compaction has replaced.                                   *)
Stage ==
  /\ pc \in {"checkpoint", "manifest", "events", "blobs"} => stateFile = mem
  /\ pc \in {"manifest", "events", "blobs"} => checkpoint = mem
  /\ pc \in {"events", "blobs"} => manifest = mem
  /\ pc = "blobs" => ledger = <<>>

(* What a start would find is a state, with every line of the ledger in it. *)
Readable ==
  /\ stateFile = None \/ StateOK(stateFile)
  /\ checkpoint = None \/ StateOK(checkpoint)
  /\ \/ Recovered = Corrupt
     \/ /\ StateOK(Recovered)
        /\ \A i \in DOMAIN ledger : ledger[i].seq < Recovered.next

(* The broker knows every line but those of failed writes.                  *)
Numbered ==
  Up => /\ \A i \in DOMAIN ledger : ledger[i].seq <= mem.next
        /\ \A x \in Strays : Fits(mem, x)

IInv == Shape /\ Waits /\ Queued /\ Stage /\ Readable /\ Numbered

(* Bodies: what is referenced or pinned is stored, and a runner's body is   *)
(* pinned until the event that refers to it, or else was exposed.           *)
Backed(c, s, h) ==
  c.kind = "persist" /\ c.w \in DOMAIN s.wf /\ s.wf[c.w] = c.expected
    /\ c.next.body # None
    => c.next.body = c.expected.body \/ c.w \in h
There == blobs \cup exposed
Stored ==
  /\ Recovered # Corrupt => References(Recovered) \subseteq There
  /\ References(mem) \subseteq There
  /\ pins \subseteq blobs
  /\ \A w \in held : BodyOf[w] \in pins \cup exposed
  /\ \A i \in DOMAIN queue : Backed(queue[i], mem, held)
  /\ Up => \A x \in Strays : x.rec.body \in There \cup {None}

(* Every identity a caller was told, and what a start would find of them.   *)
Told(pairs, s) == \A p \in pairs : p[1] \in DOMAIN s.ops /\ s.ops[p[1]] = p[2]
Like(r) == Near(r, mem) \/ \E x \in Strays : Near(r, ApplyEvent(mem, x))
Found ==
  \/ Recovered = Corrupt
  \/ /\ Named(Recovered) /\ Told(admitted, Recovered)
     /\ Up => Like(Recovered)
Sound ==
  /\ \A p, q \in admitted : p[1] = q[1] => p = q
  /\ Named(mem)
  /\ Up => Told(admitted, mem)
  /\ \A i \in DOMAIN queue : queue[i].kind = "start" => ParentsKnown(mem, queue[i].w)
  /\ Up => \A x \in Strays : x.starts => ParentsKnown(mem, x.w)
  /\ ~Up => fork = "no"
  /\ fork = "no" => Found
Safe == fork # "lost" => Sound

-----------------------------------------------------------------------------
(* The naturals have no proper subset that is closed under successor: the  *)
(* induction of the proofs below, which are about lengths of ledgers.      *)
LEMMA Induction ==
  ASSUME NEW S \in SUBSET Nat, 0 \in S, \A n \in S : n + 1 \in S
  PROVE  \A n \in Nat : n \in S
<1>1. SUFFICES ASSUME Nat \ S # {} PROVE FALSE
  OBVIOUS
<1>2. PICK m \in Nat \ S : \A k \in Nat \ S : ~ (<<k, m>> \in OpToRel(<, Nat))
  <2>1. Nat \ S \subseteq Nat
    OBVIOUS
  <2> QED BY <1>1, <2>1, NatLessThanWellFounded, WFMin
<1>3. \A k \in Nat \ S : ~(k < m)
  BY <1>2 DEF OpToRel
<1>4. m # 0
  BY <1>2
<1>5. m - 1 \in S
  BY <1>3, <1>4
<1> QED BY <1>5, <1>4

-----------------------------------------------------------------------------
(* Replay.  Its recursive function exists and is the only one, so it obeys  *)
(* its equation; everything else about it follows from three facts.         *)
IsReplay(g, s, l) ==
  g = [n \in 0..Len(l) |-> IF n = 0 THEN s ELSE ReplayLine(g[n - 1], l[n])]

LEMMA ReplayChoose ==
  ASSUME NEW s, NEW l
  PROVE  Replay(s, l) = (CHOOSE g : IsReplay(g, s, l))[Len(l)]
  BY Zenon DEF Replay, IsReplay

(* Two replays of which one has the lines of the other, and maybe more,     *)
(* agree as far as both go.                                                 *)
LEMMA ReplayUnique ==
  ASSUME NEW s, NEW l, NEW k, Len(l) \in Nat, Len(k) \in Nat, Len(l) <= Len(k),
         \A i \in 1..Len(l) : l[i] = k[i],
         NEW g, IsReplay(g, s, l), NEW h, IsReplay(h, s, k)
  PROVE  g[Len(l)] = h[Len(l)]
<1> DEFINE S == {n \in Nat : n <= Len(l) => g[n] = h[n]}
<1>1. g[0] = s /\ h[0] = s
  BY DEF IsReplay
<1>2. ASSUME NEW n \in 1..Len(l) PROVE g[n] = ReplayLine(g[n - 1], l[n])
  BY DEF IsReplay
<1>3. ASSUME NEW n \in 1..Len(k) PROVE h[n] = ReplayLine(h[n - 1], k[n])
  BY DEF IsReplay
<1>4. 0 \in S
  BY <1>1
<1>5. ASSUME NEW n \in S PROVE n + 1 \in S
  <2>1. SUFFICES ASSUME n + 1 <= Len(l) PROVE g[n + 1] = h[n + 1]
    OBVIOUS
  <2> DEFINE m == n + 1
  <2>2. m \in 1..Len(l) /\ m \in 1..Len(k) /\ m - 1 = n /\ n <= Len(l)
    BY <2>1
  <2>3. g[m - 1] = h[m - 1] /\ l[m] = k[m]
    BY <2>2
  <2> HIDE DEF S, m
  <2>4. g[m] = ReplayLine(g[m - 1], l[m])
    BY <1>2, <2>2, Zenon
  <2>5. h[m] = ReplayLine(h[m - 1], k[m])
    BY <1>3, <2>2, Zenon
  <2> QED BY <2>3, <2>4, <2>5 DEF m
<1>6. S \in SUBSET Nat
  OBVIOUS
<1>7. \A n \in Nat : n \in S
  <2> HIDE DEF S
  <2> QED BY <1>4, <1>5, <1>6, Induction
<1> QED BY <1>7

(* A replay can be taken one line further.                                  *)
LEMMA ReplayLonger ==
  ASSUME NEW s, NEW l \in Seq(Line), NEW e \in Line, NEW g, IsReplay(g, s, l)
  PROVE  \E h : IsReplay(h, s, Append(l, e))
<1> DEFINE k == Append(l, e)
           h == [n \in 0..Len(k) |-> IF n = Len(k) THEN ReplayLine(g[Len(l)], e) ELSE g[n]]
           r == [n \in 0..Len(k) |-> IF n = 0 THEN s ELSE ReplayLine(h[n - 1], k[n])]
<1>1. Len(l) \in Nat /\ Len(k) = Len(l) + 1 /\ k[Len(k)] = e
      /\ \A i \in 1..Len(l) : k[i] = l[i]
  OBVIOUS
<1>2. g[0] = s /\ \A n \in 1..Len(l) : g[n] = ReplayLine(g[n - 1], l[n])
  BY <1>1 DEF IsReplay
<1> HIDE DEF k
<1>3. \A n \in 0..Len(k) : h[n] = IF n = Len(k) THEN ReplayLine(g[Len(l)], e) ELSE g[n]
  OBVIOUS
<1> HIDE DEF h
<1>4. ASSUME NEW n \in 0..Len(k)
      PROVE  h[n] = IF n = 0 THEN s ELSE ReplayLine(h[n - 1], k[n])
  <2>1. CASE n = 0
    <3>1. 0 # Len(k) /\ 0 \in 0..Len(k)
      BY <1>1
    <3>2. h[0] = g[0]
      BY <1>3, <3>1, Zenon
    <3> QED BY <1>2, <2>1, <3>2
  <2>2. CASE n = Len(k)
    <3>1. n # 0 /\ n - 1 = Len(l) /\ n - 1 \in 0..Len(k) /\ n - 1 # Len(k)
      BY <2>2, <1>1
    <3>2. h[n - 1] = g[Len(l)]
      BY <3>1, <1>3
    <3>3. h[n] = ReplayLine(g[Len(l)], e)
      BY <2>2, <1>3
    <3> QED BY <3>1, <3>2, <3>3, <2>2, <1>1, Zenon
  <2>3. CASE n # 0 /\ n # Len(k)
    <3>1. n \in 1..Len(l) /\ n - 1 \in 0..Len(k) /\ n - 1 # Len(k)
      BY <2>3, <1>1
    <3>2. h[n - 1] = g[n - 1] /\ h[n] = g[n]
      BY <2>3, <3>1, <1>3
    <3> QED BY <3>1, <3>2, <2>3, <1>1, <1>2
  <2> QED BY <2>1, <2>2, <2>3
<1>5. h = [n \in 0..Len(k) |-> h[n]]
  BY DEF h
<1>6. h = r
  BY <1>4, <1>5
<1>7. IsReplay(h, s, k)
  BY <1>6 DEF IsReplay
<1> QED BY <1>7 DEF k

LEMMA ReplayExists ==
  ASSUME NEW s
  PROVE  \A l \in Seq(Line) : \E g : IsReplay(g, s, l)
<1> DEFINE S == {n \in Nat : \A l \in Seq(Line) : Len(l) = n => \E g : IsReplay(g, s, l)}
<1>1. 0 \in S
  <2>1. SUFFICES ASSUME NEW l \in Seq(Line), Len(l) = 0 PROVE \E g : IsReplay(g, s, l)
    OBVIOUS
  <2> DEFINE g == [n \in 0..0 |-> s]
  <2>2. g = [n \in 0..0 |-> IF n = 0 THEN s ELSE ReplayLine(g[n - 1], l[n])]
    OBVIOUS
  <2>3. IsReplay(g, s, l)
    BY <2>1, <2>2 DEF IsReplay
  <2> QED BY <2>3
<1>2. ASSUME NEW n \in S PROVE n + 1 \in S
  <2>1. SUFFICES ASSUME NEW l \in Seq(Line), Len(l) = n + 1
                 PROVE  \E g : IsReplay(g, s, l)
    OBVIOUS
  <2>2. PICK k \in Seq(Line), e \in Line : l = Append(k, e) /\ Len(k) = n
    <3> DEFINE f == SubSeq(l, 1, n)
    <3>1. n \in Nat
      OBVIOUS
    <3> HIDE DEF S
    <3>2. f \in Seq(Line) /\ Len(f) = n /\ l[n + 1] \in Line
      BY <2>1, <3>1
    <3>3. l = Append(f, l[n + 1])
      BY <2>1, <3>1, <3>2
    <3> QED BY <3>2, <3>3
  <2>3. \E g : IsReplay(g, s, k)
    BY <2>2
  <2> HIDE DEF S
  <2> QED BY <2>2, <2>3, ReplayLonger
<1>3. S \in SUBSET Nat
  OBVIOUS
<1>4. \A n \in Nat : n \in S
  <2> HIDE DEF S
  <2> QED BY <1>1, <1>2, <1>3, Induction
<1> QED BY <1>4

LEMMA ReplayIs ==
  ASSUME NEW s, NEW l \in Seq(Line)
  PROVE  \E g : IsReplay(g, s, l) /\ Replay(s, l) = g[Len(l)]
<1>1. IsReplay(CHOOSE g : IsReplay(g, s, l), s, l)
  BY ReplayExists, Zenon
<1> QED BY <1>1, ReplayChoose, Zenon

(* No lines: the state it began from.                                       *)
LEMMA ReplayEmpty ==
  ASSUME NEW s
  PROVE  Replay(s, <<>>) = s
<1>1. PICK g : IsReplay(g, s, <<>>) /\ Replay(s, <<>>) = g[Len(<<>>)]
  <2>1. <<>> \in Seq(Line)
    OBVIOUS
  <2> QED BY <2>1, ReplayIs
<1> QED BY <1>1 DEF IsReplay

(* One line more: one step more.                                            *)
LEMMA ReplayAppend ==
  ASSUME NEW s, NEW l \in Seq(Line), NEW e \in Line
  PROVE  Replay(s, Append(l, e)) = ReplayLine(Replay(s, l), e)
<1> DEFINE k == Append(l, e)
<1>1. /\ k \in Seq(Line) /\ Len(l) \in Nat /\ Len(k) = Len(l) + 1 /\ k[Len(k)] = e
      /\ \A i \in 1..Len(l) : l[i] = k[i]
  OBVIOUS
<1> HIDE DEF k
<1>2. PICK g : IsReplay(g, s, l) /\ Replay(s, l) = g[Len(l)]
  BY ReplayIs
<1>3. PICK h : IsReplay(h, s, k) /\ Replay(s, k) = h[Len(k)]
  BY <1>1, ReplayIs
<1>4. g[Len(l)] = h[Len(l)]
  <2>1. Len(l) <= Len(k) /\ Len(k) \in Nat
    BY <1>1
  <2>2. Len(l) \in Nat /\ \A i \in 1..Len(l) : l[i] = k[i]
    BY <1>1
  <2>3. IsReplay(g, s, l) /\ IsReplay(h, s, k)
    BY <1>2, <1>3
  <2> QED BY <2>1, <2>2, <2>3, ReplayUnique
<1>5. h[Len(k)] = ReplayLine(h[Len(k) - 1], k[Len(k)])
  BY <1>1, <1>3 DEF IsReplay
<1>6. Len(k) - 1 = Len(l)
  BY <1>1
<1> QED BY <1>1, <1>2, <1>3, <1>4, <1>5, <1>6 DEF k

(* The cases of one line.                                                   *)
LEMMA LineCorrupt ==
  ASSUME NEW s, NEW e, s = Corrupt \/ e = Torn
  PROVE  ReplayLine(s, e) = Corrupt
  BY Zenon DEF ReplayLine

LEMMA LineSkipped ==
  ASSUME NEW s, NEW e, s # Corrupt, e # Torn, e.seq < s.next
  PROVE  ReplayLine(s, e) = s
  BY Zenon DEF ReplayLine

LEMMA LineApplied ==
  ASSUME NEW s, NEW e, s # Corrupt, e # Torn, s.next \in Nat, e.seq = s.next
  PROVE  ReplayLine(s, e) = ApplyEvent(s, e)
<1>1. ~(e.seq < s.next)
  OBVIOUS
<1> QED BY <1>1, Zenon DEF ReplayLine

(* The last line and the ones before it.                                    *)
LEMMA LastOf ==
  ASSUME NEW l \in Seq(Line), NEW n \in Nat, Len(l) = n + 1
  PROVE  \E f \in Seq(Line), e \in Line :
           /\ l = Append(f, e) /\ Len(f) = n
           /\ n + 1 \in DOMAIN l /\ l[n + 1] = e
           /\ \A i \in DOMAIN f : i \in DOMAIN l /\ l[i] = f[i]
<1> DEFINE f == SubSeq(l, 1, n)
<1>1. f \in Seq(Line) /\ Len(f) = n /\ l[n + 1] \in Line
  OBVIOUS
<1>2. l = Append(f, l[n + 1])
  BY <1>1
<1> HIDE DEF f
<1>3. \A i \in DOMAIN f : i \in DOMAIN l /\ l[i] = f[i]
  BY <1>1, <1>2
<1> QED BY <1>1, <1>2, <1>3

(* Over lines none of which is newer than the next event, a replay changes  *)
(* nothing, or takes one of them, or cannot read them.                      *)
Replayed(s, l, r) ==
  \/ r = Corrupt
  \/ r = s /\ \A i \in DOMAIN l : l[i].seq < s.next
  \/ \E i \in DOMAIN l : l[i] # Torn /\ l[i].seq = s.next /\ r = ApplyEvent(s, l[i])

LEMMA ReplayOverOne ==
  ASSUME NEW s, s.next \in Nat, s # Corrupt, NEW f \in Seq(Line), NEW e \in Line,
         e.seq \in Nat, e.seq <= s.next, NEW k, NEW n \in DOMAIN k, k[n] = e,
         \A i \in DOMAIN k : i = n \/ (i \in DOMAIN f /\ k[i] = f[i]),
         \A i \in DOMAIN f : i \in DOMAIN k /\ k[i] = f[i],
         NEW r, Replayed(s, f, r)
  PROVE  Replayed(s, k, ReplayLine(r, e))
<1>1. CASE r = Corrupt \/ e = Torn
  BY <1>1, LineCorrupt DEF Replayed
<1>2. CASE e # Torn /\ r # Corrupt /\ r = s /\ \A i \in DOMAIN f : f[i].seq < s.next
  <2>1. CASE e.seq < s.next
    <3>1. ReplayLine(r, e) = s
      BY <1>2, <2>1, LineSkipped
    <3> QED BY <1>2, <2>1, <3>1 DEF Replayed
  <2>2. CASE e.seq = s.next
    <3>1. ReplayLine(r, e) = ApplyEvent(s, e)
      BY <1>2, <2>2, LineApplied
    <3> QED BY <1>2, <2>2, <3>1 DEF Replayed
  <2> QED BY <2>1, <2>2
<1>3. CASE /\ e # Torn /\ r # Corrupt
           /\ \E i \in DOMAIN f : f[i] # Torn /\ f[i].seq = s.next /\ r = ApplyEvent(s, f[i])
  <2>1. PICK i \in DOMAIN f : f[i] # Torn /\ f[i].seq = s.next /\ r = ApplyEvent(s, f[i])
    BY <1>3
  <2>2. r.next = s.next + 1
    BY <2>1, Zenon DEF ApplyEvent
  <2>3. e.seq < r.next
    BY <2>2
  <2>4. ReplayLine(r, e) = r
    BY <1>3, <2>3, LineSkipped
  <2> QED BY <2>1, <2>4 DEF Replayed
<1> QED BY <1>1, <1>2, <1>3 DEF Replayed

LEMMA ReplayOver ==
  ASSUME NEW s, s.next \in Nat, s # Corrupt, NEW l \in Seq(Line),
         \A i \in DOMAIN l : l[i].seq \in Nat /\ l[i].seq <= s.next
  PROVE  Replayed(s, l, Replay(s, l))
<1> DEFINE Old(k) == \A i \in DOMAIN k : k[i].seq \in Nat /\ k[i].seq <= s.next
           S == {n \in Nat : \A k \in Seq(Line) :
                   Len(k) = n /\ Old(k) => Replayed(s, k, Replay(s, k))}
<1>1. 0 \in S
  <2>1. SUFFICES ASSUME NEW k \in Seq(Line), Len(k) = 0 PROVE Replayed(s, k, Replay(s, k))
    OBVIOUS
  <2>2. k = <<>> /\ DOMAIN k = {}
    BY <2>1, EmptySeq
  <2> QED BY <2>2, ReplayEmpty DEF Replayed
<1>2. ASSUME NEW n \in S PROVE n + 1 \in S
  <2>0. n \in Nat
    OBVIOUS
  <2>1. SUFFICES ASSUME NEW k \in Seq(Line), Len(k) = n + 1, Old(k)
                 PROVE  Replayed(s, k, Replay(s, k))
    OBVIOUS
  <2>2. PICK f \in Seq(Line), e \in Line :
          /\ k = Append(f, e) /\ Len(f) = n
          /\ n + 1 \in DOMAIN k /\ k[n + 1] = e
          /\ \A i \in DOMAIN f : i \in DOMAIN k /\ k[i] = f[i]
    <3> HIDE DEF S, Old
    <3> QED BY <2>0, <2>1, LastOf
  <2>3. Old(f) /\ e.seq \in Nat /\ e.seq <= s.next
    BY <2>1, <2>2
  <2>4. Replayed(s, f, Replay(s, f))
    BY <2>2, <2>3
  <2> HIDE DEF S, Old
  <2>5. Replay(s, k) = ReplayLine(Replay(s, f), e)
    BY <2>2, ReplayAppend
  <2>6. \A i \in DOMAIN k : i = n + 1 \/ (i \in DOMAIN f /\ k[i] = f[i])
    BY <2>0, <2>2
  <2>7. Replayed(s, k, ReplayLine(Replay(s, f), e))
    BY <2>2, <2>3, <2>4, <2>6, ReplayOverOne
  <2> QED BY <2>5, <2>7
<1>3. S \in SUBSET Nat
  OBVIOUS
<1>4. \A n \in Nat : n \in S
  <2> HIDE DEF S
  <2> QED BY <1>1, <1>2, <1>3, Induction
<1> QED BY <1>4

(* A replay never goes back.                                                *)
Later(s, r) == r = Corrupt \/ (r.next \in Nat /\ s.next <= r.next)

LEMMA ReplayGrows ==
  ASSUME NEW s, s.next \in Nat, NEW l \in Seq(Line)
  PROVE  Later(s, Replay(s, l))
<1> DEFINE S == {n \in Nat : \A k \in Seq(Line) : Len(k) = n => Later(s, Replay(s, k))}
<1>1. 0 \in S
  <2>1. SUFFICES ASSUME NEW k \in Seq(Line), Len(k) = 0 PROVE Later(s, Replay(s, k))
    OBVIOUS
  <2>2. k = <<>>
    BY <2>1, EmptySeq
  <2> QED BY <2>2, ReplayEmpty DEF Later
<1>2. ASSUME NEW n \in S PROVE n + 1 \in S
  <2>0. n \in Nat
    OBVIOUS
  <2>1. SUFFICES ASSUME NEW k \in Seq(Line), Len(k) = n + 1 PROVE Later(s, Replay(s, k))
    OBVIOUS
  <2>2. PICK f \in Seq(Line), e \in Line : k = Append(f, e) /\ Len(f) = n
    <3> HIDE DEF S
    <3> QED BY <2>0, <2>1, LastOf
  <2>3. Later(s, Replay(s, f))
    BY <2>2
  <2> HIDE DEF S
  <2> DEFINE r == Replay(s, f)
  <2>4. Replay(s, k) = ReplayLine(r, e)
    BY <2>2, ReplayAppend
  <2>5. Later(s, r)
    BY <2>3
  <2> HIDE DEF r
  <2>6. ReplayLine(r, e) = Corrupt \/ ReplayLine(r, e) = r \/ ReplayLine(r, e) = ApplyEvent(r, e)
    BY Zenon DEF ReplayLine
  <2>7. ApplyEvent(r, e) = Corrupt \/ ApplyEvent(r, e).next = r.next + 1
    <3>1. CASE e.seq # r.next
      BY <3>1, Zenon DEF ApplyEvent
    <3>2. CASE e.seq = r.next
      <4>1. ApplyEvent(r, e) =
              [next |-> r.next + 1, wf |-> Put(r.wf, e.w, e.rec),
               ops |-> IF e.starts THEN Put(r.ops, KeyOf[e.w], e.w) ELSE r.ops]
        BY <3>2, Zenon DEF ApplyEvent
      <4> QED BY <4>1
    <3> QED BY <3>1, <3>2
  <2>8. CASE r = Corrupt
    BY <2>4, <2>8, LineCorrupt DEF Later
  <2>9. CASE r # Corrupt
    <3>1. r.next \in Nat /\ s.next <= r.next
      BY <2>5, <2>9 DEF Later
    <3> QED BY <2>4, <2>5, <2>6, <2>7, <3>1 DEF Later
  <2> QED BY <2>8, <2>9
<1>3. S \in SUBSET Nat
  OBVIOUS
<1>4. \A n \in Nat : n \in S
  <2> HIDE DEF S
  <2> QED BY <1>1, <1>2, <1>3, Induction
<1> QED BY <1>4

-----------------------------------------------------------------------------
(* Well-formed states.                                                      *)
LEMMA OKIsState ==
  ASSUME NEW s, StateOK(s)
  PROVE  s \in State /\ s # None /\ s # Corrupt
<1>1. s.wf \in UNION {[D -> Record] : D \in SUBSET Workflow}
  BY DEF StateOK
<1>2. s.ops \in UNION {[K -> Workflow] : K \in SUBSET Key}
  BY DEF StateOK
<1>3. s \in State
  BY <1>1, <1>2 DEF StateOK, State
<1> QED BY <1>3, NoneAssumption DEF StateOK, Corrupt

LEMMA EmptyOK == StateOK(Empty)
<1>1. /\ Empty = [next |-> Empty.next, wf |-> Empty.wf, ops |-> Empty.ops]
      /\ Empty.next = 1 /\ Empty.wf = <<>> /\ Empty.ops = <<>>
  BY DEF Empty
<1>2. DOMAIN <<>> = {} /\ <<>> \in [{} -> Record] /\ <<>> \in [{} -> Workflow]
  OBVIOUS
<1> QED BY <1>1, <1>2 DEF StateOK

LEMMA NearRefl ==
  ASSUME NEW s
  PROVE  Near(s, s)
  BY DEF Near, Kept

(* What protects a workflow is its status and its parent's.                 *)
LEMMA UnprotectedIs ==
  ASSUME NEW s, NEW w, StateOK(s)
  PROVE  w \in Unprotected(s) <=>
           /\ w \in DOMAIN s.wf /\ s.wf[w].status = "ended"
           /\ \A v \in DOMAIN s.wf : ChildOf[v] = w => ~AwaitsReview(s.wf[v])
  BY DEF Unprotected, ContinuationDependencies, HasProtectedRecoveryState

LEMMA UnprotectedWorkflow ==
  ASSUME NEW s, NEW w \in Unprotected(s), StateOK(s)
  PROVE  w \in DOMAIN s.wf /\ w \in Workflow /\ w # None /\ s.wf[w].status = "ended"
  BY UnprotectedIs, NoneAssumption DEF StateOK

LEMMA EndedAwaitsNone ==
  ASSUME NEW rec, rec.status = "ended"
  PROVE  ~AwaitsReview(rec)
  BY DEF AwaitsReview

LEMMA NearTrans ==
  ASSUME NEW r, NEW m, NEW s, StateOK(r), StateOK(m), StateOK(s), Near(r, m), Near(m, s)
  PROVE  Near(r, s)
<1>1. ASSUME NEW w \in DOMAIN m.wf
      PROVE  /\ w \in DOMAIN r.wf /\ m.wf[w].status = r.wf[w].status
             /\ \/ m.wf[w] = r.wf[w]
                \/ w \in Unprotected(r) /\ m.wf[w] = [r.wf[w] EXCEPT !.body = None]
  <2>1. w \in DOMAIN r.wf
    BY DEF Near
  <2>2. r.wf[w] \in Record
    BY <2>1 DEF StateOK
  <2> DEFINE b == [r.wf[w] EXCEPT !.body = None]
  <2>0. \/ m.wf[w] = r.wf[w]
        \/ w \in Unprotected(r) /\ m.wf[w] = [r.wf[w] EXCEPT !.body = None]
    BY DEF Near, Kept
  <2>3. m.wf[w] = r.wf[w] \/ (w \in Unprotected(r) /\ m.wf[w] = b)
    BY <2>0, Zenon
  <2>4. b.status = r.wf[w].status
    BY <2>2 DEF Record
  <2>5. m.wf[w].status = r.wf[w].status
    <3> HIDE DEF b
    <3> QED BY <2>3, <2>4
  <2> QED BY <2>1, <2>3, <2>5, Zenon
<1>2. ASSUME NEW w \in Unprotected(m) PROVE w \in Unprotected(r)
  <2>1. w \in DOMAIN m.wf /\ m.wf[w].status = "ended"
    BY <1>2, UnprotectedIs
  <2>2. ASSUME NEW v \in DOMAIN r.wf, ChildOf[v] = w PROVE ~AwaitsReview(r.wf[v])
    <3>1. CASE v \in DOMAIN m.wf
      <4>1. ~AwaitsReview(m.wf[v])
        BY <1>2, <2>2, <3>1, UnprotectedIs
      <4> QED BY <1>1, <3>1, <4>1 DEF AwaitsReview
    <3>2. CASE v \notin DOMAIN m.wf
      <4>1. v \in Unprotected(r)
        BY <3>2 DEF Near
      <4> QED BY <4>1, UnprotectedIs, EndedAwaitsNone
    <3> QED BY <3>1, <3>2
  <2> QED BY <1>1, <2>1, <2>2, UnprotectedIs
<1>3. DOMAIN r.wf \ DOMAIN s.wf \subseteq Unprotected(r)
  BY <1>2 DEF Near
<1>4. Kept(r, s)
  <2> SUFFICES ASSUME NEW w \in DOMAIN s.wf
               PROVE  \/ s.wf[w] = r.wf[w]
                      \/ w \in Unprotected(r) /\ s.wf[w] = [r.wf[w] EXCEPT !.body = None]
    BY DEF Kept
  <2>1. w \in DOMAIN m.wf
    BY DEF Near
  <2>2. CASE s.wf[w] = m.wf[w]
    BY <1>1, <2>1, <2>2
  <2>3. CASE w \in Unprotected(m) /\ s.wf[w] = [m.wf[w] EXCEPT !.body = None]
    <3>1. w \in Unprotected(r)
      BY <1>2, <2>3
    <3>2. [m.wf[w] EXCEPT !.body = None] = [r.wf[w] EXCEPT !.body = None]
      <4>1. CASE m.wf[w] = r.wf[w]
        BY <4>1
      <4>2. CASE m.wf[w] = [r.wf[w] EXCEPT !.body = None]
        <5>1. r.wf[w] \in Record
          BY <1>1, <2>1 DEF StateOK
        <5> QED BY <4>2, <5>1 DEF Record
      <4> QED BY <1>1, <2>1, <4>1, <4>2
    <3> QED BY <2>3, <3>1, <3>2
  <2> QED BY <2>2, <2>3 DEF Near, Kept
<1> QED BY <1>3, <1>4 DEF Near

-----------------------------------------------------------------------------
(* An event.                                                                *)
LEMMA ApplyIs ==
  ASSUME NEW s, NEW e, e.seq = s.next
  PROVE  LET t == ApplyEvent(s, e) IN
         /\ t = [next |-> t.next, wf |-> t.wf, ops |-> t.ops]
         /\ t.next = s.next + 1
         /\ DOMAIN t.wf = DOMAIN s.wf \cup {e.w}
         /\ t.wf = [w \in DOMAIN s.wf \cup {e.w} |-> t.wf[w]]
         /\ t.wf[e.w] = e.rec
         /\ \A w \in DOMAIN s.wf : w # e.w => t.wf[w] = s.wf[w]
         /\ e.starts => t.ops = Put(s.ops, KeyOf[e.w], e.w)
         /\ ~e.starts => t.ops = s.ops
<1>1. ApplyEvent(s, e) =
        [next |-> s.next + 1, wf |-> Put(s.wf, e.w, e.rec),
         ops |-> IF e.starts THEN Put(s.ops, KeyOf[e.w], e.w) ELSE s.ops]
  BY Zenon DEF ApplyEvent
<1> QED BY <1>1 DEF Put

LEMMA AppliedWorkflows ==
  ASSUME NEW s, NEW e, e.seq = s.next
  PROVE  LET t == ApplyEvent(s, e) IN
         /\ DOMAIN t.wf = DOMAIN s.wf \cup {e.w} /\ t.wf[e.w] = e.rec
         /\ \A w \in DOMAIN s.wf : w # e.w => t.wf[w] = s.wf[w]
<1>1. ApplyEvent(s, e).wf = Put(s.wf, e.w, e.rec)
  <2>1. ApplyEvent(s, e) =
          [next |-> s.next + 1, wf |-> Put(s.wf, e.w, e.rec),
           ops |-> IF e.starts THEN Put(s.ops, KeyOf[e.w], e.w) ELSE s.ops]
    BY Zenon DEF ApplyEvent
  <2> QED BY <2>1
<1> DEFINE f == ApplyEvent(s, e).wf
<1>2. /\ DOMAIN f = DOMAIN s.wf \cup {e.w} /\ f[e.w] = e.rec
      /\ \A w \in DOMAIN s.wf : w # e.w => f[w] = s.wf[w]
  BY <1>1 DEF Put
<1> QED BY <1>2

LEMMA AppliedOps ==
  ASSUME NEW s, NEW e, e.seq = s.next
  PROVE  /\ ApplyEvent(s, e).next = s.next + 1
         /\ e.starts => ApplyEvent(s, e).ops = Put(s.ops, KeyOf[e.w], e.w)
         /\ ~e.starts => ApplyEvent(s, e).ops = s.ops
<1>1. ApplyEvent(s, e) =
        [next |-> s.next + 1, wf |-> Put(s.wf, e.w, e.rec),
         ops |-> IF e.starts THEN Put(s.ops, KeyOf[e.w], e.w) ELSE s.ops]
  BY Zenon DEF ApplyEvent
<1> QED BY <1>1

(* An event of the ledger leaves a state that can be read.                  *)
LEMMA WrittenKeeps ==
  ASSUME NEW s, NEW e \in Written, StateOK(s), e.seq = s.next
  PROVE  StateOK(ApplyEvent(s, e))
<1> DEFINE t == ApplyEvent(s, e)
<1>0. e.w \in Workflow /\ e.rec \in Record /\ KeyOf[e.w] \in Key
      /\ e.rec.at = s.next /\ e.rec.body \in {None, BodyOf[e.w]} /\ s.next \in Nat \ {0}
      /\ e.starts \in BOOLEAN
  BY DEF Written, Event, StateOK, Key
<1>1. /\ t = [next |-> t.next, wf |-> t.wf, ops |-> t.ops]
      /\ t.next = s.next + 1
      /\ DOMAIN t.wf = DOMAIN s.wf \cup {e.w}
      /\ t.wf = [w \in DOMAIN s.wf \cup {e.w} |-> t.wf[w]]
      /\ t.wf[e.w] = e.rec
      /\ \A w \in DOMAIN s.wf : w # e.w => t.wf[w] = s.wf[w]
      /\ e.starts => t.ops = Put(s.ops, KeyOf[e.w], e.w)
      /\ ~e.starts => t.ops = s.ops
  BY ApplyIs
<1>2. /\ DOMAIN s.ops \subseteq Key /\ s.ops \in [DOMAIN s.ops -> Workflow]
      /\ DOMAIN s.wf \subseteq Workflow /\ s.wf \in [DOMAIN s.wf -> Record]
      /\ \A w \in DOMAIN s.wf :
           /\ s.wf[w].at \in Nat /\ s.wf[w].at < s.next
           /\ s.wf[w].body \in {None, BodyOf[w]}
  BY DEF StateOK, Record
<1> HIDE DEF t
<1>3. DOMAIN t.ops \subseteq Key /\ t.ops \in [DOMAIN t.ops -> Workflow]
  <2>1. CASE e.starts
    <3>1. t.ops = [x \in DOMAIN s.ops \cup {KeyOf[e.w]} |->
                     IF x = KeyOf[e.w] THEN e.w ELSE s.ops[x]]
      BY <1>1, <2>1 DEF Put
    <3> QED BY <1>0, <1>2, <3>1
  <2>2. CASE ~e.starts
    BY <1>1, <1>2, <2>2
  <2> QED BY <2>1, <2>2
<1>4. DOMAIN t.wf \subseteq Workflow /\ t.wf \in [DOMAIN t.wf -> Record]
  <2>1. \A w \in DOMAIN t.wf : w \in Workflow /\ t.wf[w] \in Record
    BY <1>0, <1>1, <1>2
  <2>2. t.wf = [w \in DOMAIN t.wf |-> t.wf[w]]
    BY <1>1
  <2> QED BY <2>1, <2>2
<1>5. ASSUME NEW w \in DOMAIN t.wf
      PROVE  t.wf[w].at < t.next /\ t.wf[w].body \in {None, BodyOf[w]}
  <2>1. CASE w = e.w
    BY <1>0, <1>1, <2>1
  <2>2. CASE w # e.w
    <3>1. w \in DOMAIN s.wf /\ t.wf[w] = s.wf[w]
      BY <1>1, <2>2
    <3> QED BY <1>0, <1>1, <1>2, <3>1
  <2> QED BY <2>1, <2>2
<1>6. t.next \in Nat \ {0}
  BY <1>0, <1>1
<1> QED BY <1>1, <1>3, <1>4, <1>5, <1>6 DEF StateOK, t

(* An event that fits keeps every identity, and gives its own to one        *)
(* workflow.                                                                *)
LEMMA FitsOps ==
  ASSUME NEW s, NEW e, Fits(s, e)
  PROVE  LET t == ApplyEvent(s, e) IN
         /\ DOMAIN s.ops \subseteq DOMAIN t.ops
         /\ \A k \in DOMAIN s.ops : t.ops[k] = s.ops[k]
         /\ e.starts => KeyOf[e.w] \in DOMAIN t.ops /\ t.ops[KeyOf[e.w]] = e.w
<1> DEFINE t == ApplyEvent(s, e)
<1>1. e.seq = s.next /\ e.starts \in BOOLEAN /\ (e.starts => KeyOf[e.w] \notin DOMAIN s.ops)
  BY DEF Fits, Written, Event
<1>2. /\ e.starts => t.ops = Put(s.ops, KeyOf[e.w], e.w)
      /\ ~e.starts => t.ops = s.ops
  BY <1>1, AppliedOps
<1> HIDE DEF t
<1>3. /\ DOMAIN s.ops \subseteq DOMAIN t.ops
      /\ \A k \in DOMAIN s.ops : t.ops[k] = s.ops[k]
      /\ e.starts => KeyOf[e.w] \in DOMAIN t.ops /\ t.ops[KeyOf[e.w]] = e.w
  <2>1. CASE e.starts
    BY <1>1, <1>2, <2>1 DEF Put
  <2>2. CASE ~e.starts
    BY <1>2, <2>2
  <2> QED BY <1>1, <2>1, <2>2
<1> QED BY <1>3 DEF t

LEMMA ToldGrows ==
  ASSUME NEW s, NEW e, Fits(s, e), NEW pairs, Told(pairs, s)
  PROVE  Told(pairs, ApplyEvent(s, e))
<1> DEFINE t == ApplyEvent(s, e)
<1>1. /\ DOMAIN s.ops \subseteq DOMAIN t.ops
      /\ \A k \in DOMAIN s.ops : t.ops[k] = s.ops[k]
  BY FitsOps
<1> HIDE DEF t
<1>2. Told(pairs, t)
  BY <1>1 DEF Told
<1> QED BY <1>2 DEF t

LEMMA NamedFits ==
  ASSUME NEW s, NEW e, Named(s), Fits(s, e), e.starts => ParentsKnown(s, e.w)
  PROVE  Named(ApplyEvent(s, e))
<1> DEFINE t == ApplyEvent(s, e)
<1>1. e.seq = s.next /\ e.starts \in BOOLEAN
  BY DEF Fits, Written, Event
<1>2. DOMAIN t.wf = DOMAIN s.wf \cup {e.w}
  BY <1>1, AppliedWorkflows
<1>3. /\ DOMAIN s.ops \subseteq DOMAIN t.ops
      /\ \A k \in DOMAIN s.ops : t.ops[k] = s.ops[k]
      /\ e.starts => KeyOf[e.w] \in DOMAIN t.ops /\ t.ops[KeyOf[e.w]] = e.w
  BY FitsOps
<1> HIDE DEF t
<1>4. ASSUME NEW w \in DOMAIN t.wf
      PROVE  KeyOf[w] \in DOMAIN t.ops /\ t.ops[KeyOf[w]] = w /\ ParentsKnown(s, w)
  <2>1. CASE w \in DOMAIN s.wf
    BY <1>3, <2>1 DEF Named
  <2>2. CASE w \notin DOMAIN s.wf
    <3>1. w = e.w /\ e.starts
      BY <1>1, <1>2, <2>2 DEF Fits
    <3> QED BY <1>3, <3>1
  <2> QED BY <2>1, <2>2
<1>5. \A w \in DOMAIN t.wf : ParentsKnown(t, w)
  BY <1>3, <1>4 DEF ParentsKnown
<1>6. Named(t)
  BY <1>4, <1>5 DEF Named
<1> QED BY <1>6 DEF t

LEMMA NamedNear ==
  ASSUME NEW r, NEW m, Near(r, m), Named(r)
  PROVE  Named(m)
  BY DEF Near, Named, ParentsKnown

(* An event that fits a state fits it after retention: what a step is asked *)
(* of is protected.                                                         *)
LEMMA FitsNear ==
  ASSUME NEW r, NEW m, NEW e, StateOK(r), Near(r, m), Fits(r, e)
  PROVE  Fits(m, e)
<1>1. r.next = m.next /\ r.ops = m.ops /\ DOMAIN m.wf \subseteq DOMAIN r.wf
  BY DEF Near
<1>2. CASE e.starts
  BY <1>1, <1>2 DEF Fits
<1>3. CASE ~e.starts
  <2>1. e.w \in DOMAIN r.wf /\ e.w \notin Unprotected(r)
    BY <1>3, UnprotectedIs DEF Fits
  <2>2. e.w \in DOMAIN m.wf /\ m.wf[e.w] = r.wf[e.w]
    BY <2>1 DEF Near, Kept
  <2> QED BY <1>1, <1>3, <2>2 DEF Fits
<1> QED BY <1>2, <1>3

(* An event that fits the broker's state fits the recovered one, and keeps  *)
(* the two near each other.                                                 *)
LEMMA FitsBoth ==
  ASSUME NEW r, NEW m, NEW e, StateOK(r), StateOK(m), Named(r), Near(r, m), Fits(m, e)
  PROVE  /\ Fits(r, e) /\ Near(ApplyEvent(r, e), ApplyEvent(m, e))
<1> DEFINE rr == ApplyEvent(r, e)
           mm == ApplyEvent(m, e)
<1>1. r.next = m.next /\ r.ops = m.ops /\ DOMAIN m.wf \subseteq DOMAIN r.wf
      /\ e.seq = m.next /\ e.w \in Workflow /\ e.starts \in BOOLEAN /\ e \in Written
  BY DEF Near, Fits, Written, Event
<1>2. ~e.starts => /\ e.w \in DOMAIN m.wf /\ e.w \in DOMAIN r.wf
                   /\ m.wf[e.w] = r.wf[e.w] /\ r.wf[e.w].status # "ended"
                   /\ e.w \notin Unprotected(r)
  <2>1. SUFFICES ASSUME ~e.starts
                 PROVE  /\ e.w \in DOMAIN m.wf /\ e.w \in DOMAIN r.wf
                        /\ m.wf[e.w] = r.wf[e.w] /\ r.wf[e.w].status # "ended"
                        /\ e.w \notin Unprotected(r)
    OBVIOUS
  <2>2. e.w \in DOMAIN m.wf /\ e.w \in DOMAIN r.wf /\ m.wf[e.w].status # "ended"
    BY <2>1 DEF Near, Fits
  <2>3. r.wf[e.w] \in Record
    BY <2>2 DEF StateOK
  <2>4. CASE m.wf[e.w] = r.wf[e.w]
    BY <2>2, <2>4, UnprotectedIs
  <2>5. CASE m.wf[e.w] = [r.wf[e.w] EXCEPT !.body = None] /\ e.w \in Unprotected(r)
    <3>1. r.wf[e.w].status = "ended"
      BY <2>5, UnprotectedIs
    <3>2. m.wf[e.w].status = r.wf[e.w].status
      BY <2>3, <2>5 DEF Record
    <3> QED BY <2>2, <3>1, <3>2
  <2> QED BY <2>2, <2>4, <2>5 DEF Near, Kept
<1>3. Fits(r, e)
  <2>1. CASE e.starts
    <3>1. e.w \notin DOMAIN r.wf
      BY <1>1, <2>1 DEF Fits, Named
    <3> QED BY <1>1, <2>1, <3>1 DEF Fits
  <2>2. CASE ~e.starts
    BY <1>1, <1>2, <2>2 DEF Fits
  <2> QED BY <2>1, <2>2
<1>4. /\ rr.next = r.next + 1 /\ DOMAIN rr.wf = DOMAIN r.wf \cup {e.w}
      /\ rr.wf[e.w] = e.rec
      /\ \A w \in DOMAIN r.wf : w # e.w => rr.wf[w] = r.wf[w]
      /\ e.starts => rr.ops = Put(r.ops, KeyOf[e.w], e.w)
      /\ ~e.starts => rr.ops = r.ops
  <2>1. e.seq = r.next
    BY <1>1
  <2> QED BY <2>1, AppliedWorkflows, AppliedOps
<1>5. /\ mm.next = m.next + 1 /\ DOMAIN mm.wf = DOMAIN m.wf \cup {e.w}
      /\ mm.wf[e.w] = e.rec
      /\ \A w \in DOMAIN m.wf : w # e.w => mm.wf[w] = m.wf[w]
      /\ e.starts => mm.ops = Put(m.ops, KeyOf[e.w], e.w)
      /\ ~e.starts => mm.ops = m.ops
  <2>1. e.seq = m.next
    BY <1>1
  <2> QED BY <2>1, AppliedWorkflows, AppliedOps
<1>6. StateOK(rr)
  BY <1>1, WrittenKeeps
<1> HIDE DEF rr, mm
<1>7. rr.next = mm.next /\ rr.ops = mm.ops
  BY <1>1, <1>4, <1>5
(* What was unprotected stays so: a convergence that starts finds no review *)
(* of its own, for its key is known before the review's, and one that awaits *)
(* a review has awaited it before.                                          *)
<1>8. ASSUME NEW w \in Unprotected(r), w # e.w PROVE w \in Unprotected(rr)
  <2>1. w \in DOMAIN r.wf /\ r.wf[w].status = "ended" /\ w # None
    BY UnprotectedWorkflow
  <2>2. w \in DOMAIN rr.wf /\ rr.wf[w].status = "ended"
    BY <1>4, <1>8, <2>1
  <2>3. ASSUME NEW v \in DOMAIN rr.wf, ChildOf[v] = w PROVE ~AwaitsReview(rr.wf[v])
    <3>1. CASE v # e.w
      <4>1. v \in DOMAIN r.wf /\ rr.wf[v] = r.wf[v]
        BY <1>4, <3>1
      <4> QED BY <1>8, <2>3, <4>1, UnprotectedIs
    <3>2. CASE v = e.w
      <4>1. CASE e.starts
        <5>1. KeyOf[v] \notin DOMAIN r.ops
          BY <1>3, <3>2, <4>1 DEF Fits
        <5>2. KeyOf[v] \in DOMAIN r.ops
          BY <1>1, <2>1, <2>3, <3>2 DEF Named, ParentsKnown
        <5> QED BY <5>1, <5>2
      <4>2. CASE ~e.starts
        <5>1. ~AwaitsReview(r.wf[v])
          BY <1>2, <1>8, <2>3, <3>2, <4>2, UnprotectedIs
        <5>2. ChildOf[e.w] # None /\ rr.wf[v] = e.rec
          BY <1>4, <2>1, <2>3, <3>2
        <5> QED BY <1>3, <3>2, <4>2, <5>1, <5>2 DEF Fits
      <4> QED BY <4>1, <4>2
    <3> QED BY <3>1, <3>2
  <2> QED BY <1>6, <2>2, <2>3, UnprotectedIs
<1>9. DOMAIN rr.wf \ DOMAIN mm.wf \subseteq Unprotected(rr)
  <2> SUFFICES ASSUME NEW w \in DOMAIN rr.wf, w \notin DOMAIN mm.wf
               PROVE  w \in Unprotected(rr)
    OBVIOUS
  <2>1. w # e.w /\ w \in DOMAIN r.wf /\ w \notin DOMAIN m.wf
    BY <1>4, <1>5
  <2> QED BY <1>8, <2>1 DEF Near
<1>10. Kept(rr, mm)
  <2> SUFFICES ASSUME NEW w \in DOMAIN mm.wf
               PROVE  \/ mm.wf[w] = rr.wf[w]
                      \/ w \in Unprotected(rr) /\ mm.wf[w] = [rr.wf[w] EXCEPT !.body = None]
    BY Zenon DEF Kept
  <2>1. CASE w = e.w
    BY <1>4, <1>5, <2>1
  <2>2. CASE w # e.w
    <3>1. w \in DOMAIN m.wf /\ mm.wf[w] = m.wf[w] /\ w \in DOMAIN r.wf /\ rr.wf[w] = r.wf[w]
      BY <1>1, <1>4, <1>5, <2>2
    <3>2. \/ m.wf[w] = r.wf[w]
          \/ w \in Unprotected(r) /\ m.wf[w] = [r.wf[w] EXCEPT !.body = None]
      BY <3>1, Zenon DEF Near, Kept
    <3> QED BY <1>8, <2>2, <3>1, <3>2, Zenon
  <2> QED BY <2>1, <2>2
<1>11. DOMAIN mm.wf \subseteq DOMAIN rr.wf
  BY <1>1, <1>4, <1>5
<1>12. Near(rr, mm)
  BY <1>7, <1>9, <1>10, <1>11 DEF Near
<1> QED BY <1>3, <1>12 DEF rr, mm

-----------------------------------------------------------------------------
(* Retention drops ended workflows and their bodies, and nothing else.      *)
LEMMA ExpireIs ==
  ASSUME NEW s, NEW gone, StateOK(s)
  PROVE  LET t == ExpireResults(s, gone) IN
         /\ t = [next |-> t.next, wf |-> t.wf, ops |-> t.ops]
         /\ t.next = s.next /\ t.ops = s.ops /\ DOMAIN t.wf = DOMAIN s.wf
         /\ t.wf = [w \in DOMAIN s.wf |-> t.wf[w]]
         /\ \A w \in DOMAIN s.wf :
              t.wf[w] = IF w \in gone THEN [s.wf[w] EXCEPT !.body = None] ELSE s.wf[w]
<1> DEFINE f == [w \in DOMAIN s.wf |->
                   IF w \in gone THEN [s.wf[w] EXCEPT !.body = None] ELSE s.wf[w]]
<1>1. DOMAIN f = DOMAIN s.wf /\ f = [w \in DOMAIN s.wf |-> f[w]]
      /\ \A w \in DOMAIN s.wf :
           f[w] = IF w \in gone THEN [s.wf[w] EXCEPT !.body = None] ELSE s.wf[w]
  OBVIOUS
<1>2. ExpireResults(s, gone) = [s EXCEPT !.wf = f]
  BY DEF ExpireResults
<1> HIDE DEF f
<1>3. s = [next |-> s.next, wf |-> s.wf, ops |-> s.ops]
  BY DEF StateOK
<1>4. [s EXCEPT !.wf = f] = [next |-> s.next, wf |-> f, ops |-> s.ops]
  BY <1>3
<1> QED BY <1>1, <1>2, <1>4, Zenon

(* Erasing bodies of unprotected workflows.                                 *)
LEMMA ExpireNear ==
  ASSUME NEW s, NEW gone, StateOK(s), gone \subseteq Unprotected(s)
  PROVE  StateOK(ExpireResults(s, gone)) /\ Near(s, ExpireResults(s, gone))
<1> DEFINE t == ExpireResults(s, gone)
<1>1. /\ t = [next |-> t.next, wf |-> t.wf, ops |-> t.ops]
      /\ t.next = s.next /\ t.ops = s.ops /\ DOMAIN t.wf = DOMAIN s.wf
      /\ t.wf = [w \in DOMAIN s.wf |-> t.wf[w]]
      /\ \A w \in DOMAIN s.wf :
           t.wf[w] = IF w \in gone THEN [s.wf[w] EXCEPT !.body = None] ELSE s.wf[w]
  BY ExpireIs
<1> HIDE DEF t
<1>2. ASSUME NEW w \in DOMAIN s.wf
      PROVE  /\ t.wf[w] \in Record /\ t.wf[w].at = s.wf[w].at
             /\ t.wf[w].body \in {None, s.wf[w].body}
  <2>1. s.wf[w] \in Record
    BY DEF StateOK
  <2>2. [s.wf[w] EXCEPT !.body = None] \in Record
        /\ [s.wf[w] EXCEPT !.body = None].at = s.wf[w].at
        /\ [s.wf[w] EXCEPT !.body = None].body = None
    BY <2>1 DEF Record
  <2>3. CASE w \in gone
    BY <1>1, <2>2, <2>3, Zenon
  <2>4. CASE w \notin gone
    BY <1>1, <2>1, <2>4
  <2> QED BY <2>3, <2>4
<1>3. t.wf \in [DOMAIN t.wf -> Record]
  BY <1>1, <1>2
<1>4. StateOK(t)
  BY <1>1, <1>2, <1>3 DEF StateOK
<1>5. Kept(s, t)
  BY <1>1, Zenon DEF Kept
<1> QED BY <1>1, <1>4, <1>5 DEF Near, t

(* Dropping unprotected workflows.                                          *)
LEMMA DropNear ==
  ASSUME NEW s, NEW gone, StateOK(s), gone \subseteq Unprotected(s)
  PROVE  /\ StateOK([s EXCEPT !.wf = Without(s.wf, gone)])
         /\ Near(s, [s EXCEPT !.wf = Without(s.wf, gone)])
<1> DEFINE t == [s EXCEPT !.wf = Without(s.wf, gone)]
<1>1. s = [next |-> s.next, wf |-> s.wf, ops |-> s.ops]
  BY DEF StateOK
<1>2. t = [next |-> s.next, wf |-> Without(s.wf, gone), ops |-> s.ops]
  BY <1>1
<1>3. /\ t = [next |-> t.next, wf |-> t.wf, ops |-> t.ops]
      /\ t.next = s.next /\ t.ops = s.ops /\ DOMAIN t.wf = DOMAIN s.wf \ gone
      /\ t.wf = [w \in DOMAIN t.wf |-> s.wf[w]]
  BY <1>2 DEF Without
<1> HIDE DEF t
<1>4. \A w \in DOMAIN t.wf : w \in DOMAIN s.wf /\ t.wf[w] = s.wf[w]
  BY <1>3
<1>5. t.wf \in [DOMAIN t.wf -> Record]
  BY <1>3, <1>4 DEF StateOK
<1>6. StateOK(t)
  BY <1>3, <1>4, <1>5 DEF StateOK
<1>7. Kept(s, t)
  BY <1>4 DEF Kept
<1> QED BY <1>3, <1>6, <1>7 DEF Near, t

LEMMA RetentionNear ==
  ASSUME NEW s, StateOK(s)
  PROVE  StateOK(ApplyRetention(s)) /\ Near(s, ApplyRetention(s))
<1> DEFINE kept  == [s EXCEPT !.wf = Without(s.wf, Retired(s))]
           aged  == {w \in Holders(kept) \cap Unprotected(kept) : kept.wf[w].at < horizon}
           young == ExpireResults(kept, aged)
<1>1. StateOK(kept) /\ Near(s, kept)
  BY DropNear DEF Retired
<1>2. aged \subseteq Unprotected(kept)
  OBVIOUS
<1>3. ApplyRetention(s) = ExpireResults(young, OverLimit(young))
  BY DEF ApplyRetention
<1> HIDE DEF kept, aged
<1>4. StateOK(young) /\ Near(kept, young)
  BY <1>1, <1>2, ExpireNear
<1> HIDE DEF young
<1>5. OverLimit(young) \subseteq Unprotected(young)
  BY DEF OverLimit
<1>6. /\ StateOK(ExpireResults(young, OverLimit(young)))
      /\ Near(young, ExpireResults(young, OverLimit(young)))
  BY <1>4, <1>5, ExpireNear
<1>7. Near(s, young)
  BY <1>1, <1>4, NearTrans
<1> QED BY <1>3, <1>4, <1>6, <1>7, NearTrans

-----------------------------------------------------------------------------
-----------------------------------------------------------------------------
(* What a start would find changes only with the files.                     *)
LEMMA RecoveredSame ==
  ASSUME UNCHANGED <<stateFile, checkpoint, manifest, ledger>>
  PROVE  Recovered' = Recovered
  BY DEF Recovered, Load

LEMMA RecoveredAppend ==
  ASSUME UNCHANGED <<stateFile, checkpoint, manifest>>, ledger \in Seq(Line),
         NEW e \in Line, ledger' = Append(ledger, e)
  PROVE  Recovered' = ReplayLine(Recovered, e)
<1>1. Load' = Load
  BY DEF Load
<1>2. Recovered' = Replay(Load, Append(ledger, e))
  BY <1>1 DEF Recovered
<1> QED BY <1>2, ReplayAppend DEF Recovered

LEMMA ReadableSame ==
  ASSUME IInv, UNCHANGED <<mem, stateFile, checkpoint, manifest, ledger>>, Up' => Up
  PROVE  Readable' /\ Numbered' /\ Strays' = Strays /\ Recovered' = Recovered
<1>1. Recovered' = Recovered /\ Strays' = Strays
  BY RecoveredSame DEF Strays
<1> QED BY <1>1 DEF IInv, Readable, Numbered

(* Calls that stay in the queue keep their foundation while the broker's    *)
(* state grows.                                                             *)
LEMMA FoundedGrows ==
  ASSUME NEW c \in Calls, NEW s, NEW t, Founded(c, s), s.next \in Nat, t.next \in Nat,
         s.next <= t.next
  PROVE  Founded(c, t)
<1>1. c.kind = "persist" => c.expected.at \in Nat
  BY DEF Calls, Record
<1>2. c.kind = "persist" => c.expected.at < t.next
  BY <1>1 DEF Founded
<1> QED BY <1>2 DEF Founded

LEMMA QueuedFrom ==
  ASSUME IInv, \A i \in DOMAIN queue' : \E j \in DOMAIN queue : queue'[i] = queue[j],
         mem.next <= mem'.next, mem.next \in Nat, mem'.next \in Nat
  PROVE  Queued'
<1> SUFFICES ASSUME NEW i \in DOMAIN queue' PROVE Founded(queue'[i], mem')
  BY DEF Queued
<1>1. PICK j \in DOMAIN queue : queue'[i] = queue[j]
  OBVIOUS
<1>2. Founded(queue[j], mem) /\ queue[j] \in Calls
  BY DEF IInv, Queued, Shape
<1> QED BY <1>1, <1>2, FoundedGrows

(* Answering a call.                                                        *)
LEMMA TailQueue ==
  ASSUME IInv, queue # <<>>
  PROVE  /\ Tail(queue) \in Seq(Calls)
         /\ \A i \in DOMAIN Tail(queue) : \E j \in DOMAIN queue : Tail(queue)[i] = queue[j]
         /\ Call \in Calls /\ Founded(Call, mem) /\ 1 \in DOMAIN queue /\ Call = queue[1]
<1>1. queue \in Seq(Calls) /\ Len(queue) \in Nat
  BY DEF IInv, Shape
<1>2. Len(queue) # 0
  BY <1>1, EmptySeq
<1>3. /\ Tail(queue) \in Seq(Calls) /\ Len(Tail(queue)) = Len(queue) - 1
      /\ \A i \in 1..Len(Tail(queue)) : Tail(queue)[i] = queue[i + 1]
  BY <1>1, HeadTailProperties
<1>4. DOMAIN queue = 1..Len(queue) /\ DOMAIN Tail(queue) = 1..Len(Tail(queue))
  BY <1>1, <1>3, LenProperties
<1>5. ASSUME NEW i \in DOMAIN Tail(queue)
      PROVE  \E j \in DOMAIN queue : Tail(queue)[i] = queue[j]
  <2>1. i + 1 \in DOMAIN queue /\ Tail(queue)[i] = queue[i + 1]
    BY <1>1, <1>3, <1>4
  <2> QED BY <2>1
<1>6. Call = queue[1] /\ 1 \in DOMAIN queue
  BY <1>1, <1>2, <1>4 DEF Call
<1>7. Call \in Calls
  BY <1>1, <1>4, <1>6
<1>8. Founded(Call, mem)
  BY <1>6 DEF IInv, Queued
<1> QED BY <1>1, <1>2, <1>3, <1>5, <1>6, <1>7, <1>8

-----------------------------------------------------------------------------
(* Callers.                                                                 *)
LEMMA QueuesKeeps ==
  ASSUME IInv, NEW c \in Calls, Founded(c, mem), Queues(c)
  PROVE  IInv'
<1>1. /\ pc = "idle" /\ queue' = Append(queue, c)
      /\ UNCHANGED <<mem, since, pins, held, pc, after, stateFile, checkpoint, manifest,
                     ledger, blobs, admitted, fork, exposed>>
  BY DEF Queues, disk, ghost
<1>2. queue \in Seq(Calls) /\ Len(queue) \in Nat
  BY DEF IInv, Shape
<1>3. queue' \in Seq(Calls) /\ queue' # <<>>
      /\ \A i \in DOMAIN queue' : queue'[i] = c \/ \E j \in DOMAIN queue : queue'[i] = queue[j]
  BY <1>1, <1>2
<1>4. Shape'
  BY <1>1, <1>3 DEF IInv, Shape
<1>5. Waits'
  BY <1>1 DEF IInv, Waits, Busy, Compacting
<1>6. Queued'
  <2> SUFFICES ASSUME NEW i \in DOMAIN queue' PROVE Founded(queue'[i], mem')
    BY DEF Queued
  <2>1. Founded(queue'[i], mem)
    BY <1>3 DEF IInv, Queued
  <2> QED BY <1>1, <2>1
<1>7. Stage'
  BY <1>1 DEF IInv, Stage
<1>8. Readable' /\ Numbered'
  BY <1>1, ReadableSame DEF Up
<1> QED BY <1>4, <1>5, <1>6, <1>7, <1>8 DEF IInv

StartCall(w) == [kind |-> "start", w |-> w, parents |-> {<<v, mem.wf[v]>> : v \in Handing(w)}]

LEMMA StartCallIs ==
  ASSUME IInv, NEW w
  PROVE  /\ w \in Workflow => StartCall(w) \in Calls
         /\ Founded(StartCall(w), mem) /\ StartCall(w).kind = "start" /\ StartCall(w).w = w
<1> DEFINE ps == {<<v, mem.wf[v]>> : v \in Handing(w)}
<1>1. ps \in SUBSET (Workflow \X Record)
  BY DEF Handing, IInv, Shape, StateOK
<1>2. StartCall(w) = [kind |-> "start", w |-> w, parents |-> ps]
  BY DEF StartCall
<1> HIDE DEF ps
<1>3. StartCall(w).kind = "start" /\ StartCall(w).w = w
  BY <1>2
<1>4. "start" # "persist"
  OBVIOUS
<1>5. w \in Workflow => StartCall(w) \in Calls
  BY <1>1, <1>2 DEF Calls
<1> QED BY <1>3, <1>4, <1>5 DEF Founded

LEMMA AskStartKeeps ==
  ASSUME IInv, NEW w \in Workflow, AskStart(w)
  PROVE  IInv'
<1>1. Queues(StartCall(w))
  BY DEF AskStart, StartCall
<1> QED BY <1>1, StartCallIs, QueuesKeeps

LEMMA AskPutKeeps ==
  ASSUME IInv, NEW w \in Workflow, AskPut(w)
  PROVE  IInv'
<1> DEFINE c == [kind |-> "put", w |-> w]
<1>1. c \in Calls /\ Founded(c, mem)
  BY DEF Calls, Founded
<1>2. Queues(c)
  BY DEF AskPut
<1> HIDE DEF c
<1> QED BY <1>1, <1>2, QueuesKeeps

(* A step is asked for from a record that has not ended, and a convergence  *)
(* that awaits its review has awaited it before.                            *)
LEMMA StepsAre ==
  ASSUME NEW w, NEW rec \in Record, NEW got \in SUBSET Digest, NEW next \in Steps(w, rec, got)
  PROVE  /\ next \in Record /\ rec.status # "ended"
         /\ next.body \in {rec.body} \cup got
         /\ ChildOf[w] # None /\ AwaitsReview(next) => AwaitsReview(rec)
<1> DEFINE To == IF ChildOf[w] = None THEN ExchangeTo(rec.status) ELSE ConvergenceTo(rec.status)
<1>0. rec.status \in Status /\ rec.body \in Digest \cup {None}
  BY DEF Record
<1>1. /\ To \subseteq Status /\ (rec.status = "ended" => To = {})
      /\ ChildOf[w] # None /\ To \cap {"running", "handed"} # {}
           => rec.status \in {"running", "handed"}
  <2>1. CASE ChildOf[w] = None
    <3>1. CASE rec.status = "running"
      <4>1. To = {"running", "recovering", "ended"}
        BY <2>1, <3>1, Zenon DEF ExchangeTo
      <4> QED BY <2>1, <3>1, <4>1 DEF Status
    <3>2. CASE rec.status = "recovering"
      <4>1. To = {"running", "ended"}
        BY <2>1, <3>2, Zenon DEF ExchangeTo
      <4> QED BY <2>1, <3>2, <4>1 DEF Status
    <3>3. CASE rec.status # "running" /\ rec.status # "recovering"
      <4>1. To = {}
        BY <2>1, <3>3, Zenon DEF ExchangeTo
      <4> QED BY <2>1, <4>1
    <3> QED BY <3>1, <3>2, <3>3
  <2>2. CASE ChildOf[w] # None
    <3>1. CASE rec.status \in {"running", "handed"}
      <4>1. rec.status # "read" /\ rec.status # "recovering"
        BY <3>1
      <4>2. To = Status
        BY <2>2, <3>1, <4>1, Zenon DEF ConvergenceTo
      <4> QED BY <3>1, <4>2
    <3>2. CASE rec.status = "read"
      <4>0. ~(rec.status \in {"running", "handed"}) /\ rec.status # "recovering"
        BY <3>2
      <4>1. To = {"read", "recovering", "ended"}
        BY <2>2, <3>2, <4>0, Zenon DEF ConvergenceTo
      <4> QED BY <3>2, <4>1 DEF Status
    <3>3. CASE rec.status = "recovering"
      <4>0. ~(rec.status \in {"running", "handed"}) /\ rec.status # "read"
        BY <3>3
      <4>1. To = {"ended"}
        BY <2>2, <3>3, <4>0, Zenon DEF ConvergenceTo
      <4> QED BY <3>3, <4>1 DEF Status
    <3>4. CASE rec.status = "ended"
      <4>0. ~(rec.status \in {"running", "handed"}) /\ rec.status # "read"
            /\ rec.status # "recovering"
        BY <3>4
      <4>1. To = {}
        BY <2>2, <4>0, Zenon DEF ConvergenceTo
      <4> QED BY <4>1
    <3> QED BY <1>0, <3>1, <3>2, <3>3, <3>4 DEF Status
  <2> QED BY <2>1, <2>2
<1>2. next \in {[status |-> st, body |-> b, at |-> 0] : st \in To, b \in {rec.body} \cup got}
  BY DEF Steps
<1> HIDE DEF To
<1>3. PICK st \in To, b \in {rec.body} \cup got : next = [status |-> st, body |-> b, at |-> 0]
  BY <1>2
<1>4. next.status = st /\ next.body = b /\ next.at = 0
  BY <1>3
<1>5. next \in Record
  BY <1>0, <1>1, <1>3 DEF Record
<1>6. ChildOf[w] # None /\ AwaitsReview(next) => AwaitsReview(rec)
  BY <1>1, <1>4 DEF AwaitsReview
<1> QED BY <1>1, <1>4, <1>5, <1>6

LEMMA AskPersistKeeps ==
  ASSUME IInv, NEW w \in Workflow, AskPersist(w)
  PROVE  IInv'
<1>1. PICK next \in Steps(w, mem.wf[w], IF w \in held THEN {BodyOf[w]} ELSE {}) :
        Queues([kind |-> "persist", w |-> w, expected |-> mem.wf[w], next |-> next])
  BY DEF AskPersist
<1> DEFINE c == [kind |-> "persist", w |-> w, expected |-> mem.wf[w], next |-> next]
<1>2. mem.wf[w] \in Record /\ mem.wf[w].at < mem.next /\ mem.wf[w].body \in {None, BodyOf[w]}
  BY DEF AskPersist, IInv, Shape, StateOK
<1>3. /\ next \in Record /\ mem.wf[w].status # "ended"
      /\ next.body \in {mem.wf[w].body, BodyOf[w]}
      /\ ChildOf[w] # None /\ AwaitsReview(next) => AwaitsReview(mem.wf[w])
  <2> DEFINE got == IF w \in held THEN {BodyOf[w]} ELSE {}
  <2>1. got \in SUBSET Digest /\ got \subseteq {BodyOf[w]}
    BY DEF Digest
  <2> HIDE DEF got
  <2>2. /\ next \in Record /\ mem.wf[w].status # "ended"
        /\ next.body \in {mem.wf[w].body} \cup got
        /\ ChildOf[w] # None /\ AwaitsReview(next) => AwaitsReview(mem.wf[w])
    BY <1>1, <1>2, <2>1, StepsAre DEF got
  <2> QED BY <2>1, <2>2
<1>4. c \in Calls
  BY <1>2, <1>3 DEF Calls
<1>5. Founded(c, mem)
  BY <1>2, <1>3 DEF Founded
<1>6. Queues(c)
  BY <1>1
<1> HIDE DEF c
<1> QED BY <1>4, <1>5, <1>6, QueuesKeeps

-----------------------------------------------------------------------------
(* Lines.                                                                   *)
LEMMA TornIs == Torn \in Line /\ Torn.seq = 0
  BY DEF Torn, Line

LEMMA LineSeq ==
  ASSUME NEW e \in Line
  PROVE  e.seq \in Nat /\ (e # Torn => e \in Written)
  BY TornIs DEF Line, Written, Event

LEMMA WrittenLine ==
  ASSUME NEW e \in Written, e.seq # 0
  PROVE  e \in Line /\ e # Torn
  BY TornIs DEF Line

(* The event of an admitted call fits the broker's state.                   *)
LEMMA EventFits ==
  ASSUME IInv, queue # <<>>, Call.kind \in {"start", "persist"}, Admits(Call)
  PROVE  /\ Fits(mem, EventOf(Call)) /\ EventOf(Call) \in Line /\ EventOf(Call) # Torn
         /\ EventOf(Call).w = Call.w /\ EventOf(Call).starts = (Call.kind = "start")
         /\ Call.kind = "persist" =>
              /\ Call.w \in DOMAIN mem.wf /\ mem.wf[Call.w] = Call.expected
              /\ Call.next \in Record
              /\ EventOf(Call).rec.body = Call.next.body
              /\ EventOf(Call).rec.status = Call.next.status
         /\ Call.kind = "start" => EventOf(Call).rec.body = None
<1> DEFINE e == EventOf(Call)
<1>1. Call \in Calls /\ Founded(Call, mem)
  BY TailQueue
<1>2. mem.next \in Nat \ {0}
  BY DEF IInv, Shape, StateOK
<1>3. e.seq = mem.next /\ e.w = Call.w /\ e.starts = (Call.kind = "start")
      /\ e = [seq |-> e.seq, w |-> e.w, starts |-> e.starts, rec |-> e.rec]
  BY DEF EventOf
<1>4. CASE Call.kind = "start"
  <2>1. e.rec = [status |-> "running", body |-> None, at |-> mem.next]
    BY <1>4 DEF EventOf
  <2>2. e.rec \in Record /\ e.rec.body = None /\ e.rec.status = "running"
        /\ e.rec.at = mem.next
    BY <1>2, <2>1 DEF Record, Status
  <2>3. Call.w \in Workflow /\ KeyOf[Call.w] \notin DOMAIN mem.ops /\ Call.w \notin DOMAIN mem.wf
    BY <1>1, <1>4 DEF Calls, Admits, NewOperation
  <2> HIDE DEF e
  <2>4. e \in Written
    BY <1>2, <1>3, <2>2, <2>3 DEF Written, Event
  <2>5. Fits(mem, e)
    BY <1>3, <1>4, <2>2, <2>3, <2>4 DEF Fits
  <2>6. e \in Line /\ e # Torn
    BY <1>2, <1>3, <2>4, WrittenLine
  <2> QED BY <1>3, <1>4, <2>2, <2>5, <2>6 DEF e
<1>5. CASE Call.kind = "persist"
  <2>1. e.rec = [Call.next EXCEPT !.at = mem.next]
    BY <1>5 DEF EventOf
  <2>2. Call.w \in Workflow /\ Call.next \in Record /\ Call.expected \in Record
    BY <1>1, <1>5 DEF Calls
  <2>3. e.rec \in Record /\ e.rec.body = Call.next.body /\ e.rec.at = mem.next
        /\ e.rec.status = Call.next.status
    BY <1>2, <2>1, <2>2 DEF Record
  <2>4. Call.w \in DOMAIN mem.wf /\ mem.wf[Call.w] = Call.expected
    BY <1>5 DEF Admits, Expected
  <2>5. /\ Call.expected.status # "ended"
        /\ Call.expected.body \in {None, BodyOf[Call.w]}
        /\ Call.next.body \in {Call.expected.body, BodyOf[Call.w]}
        /\ ChildOf[Call.w] # None /\ AwaitsReview(Call.next) => AwaitsReview(Call.expected)
    BY <1>1, <1>5 DEF Founded
  <2> HIDE DEF e
  <2>6. e \in Written
    BY <1>2, <1>3, <2>2, <2>3, <2>5 DEF Written, Event
  <2>7. AwaitsReview(e.rec) <=> AwaitsReview(Call.next)
    BY <2>3 DEF AwaitsReview
  <2>8. Fits(mem, e)
    BY <1>3, <1>5, <2>4, <2>5, <2>6, <2>7 DEF Fits
  <2>9. e \in Line /\ e # Torn
    BY <1>2, <1>3, <2>6, WrittenLine
  <2> QED BY <1>3, <1>5, <2>2, <2>3, <2>4, <2>8, <2>9 DEF e
<1> QED BY <1>4, <1>5

(* A line that is added: what a start would find takes it, or knows a line  *)
(* of that number already, or can no longer be read.                        *)
Takes(r, rr, e) ==
  \/ rr = Corrupt
  \/ r # Corrupt /\ e.seq = r.next /\ rr = ApplyEvent(r, e)
  \/ r # Corrupt /\ e.seq < r.next /\ rr = r

LEMMA LineTaken ==
  ASSUME NEW r, NEW e, e # Torn, e.seq \in Nat, r = Corrupt \/ r.next \in Nat
  PROVE  Takes(r, ReplayLine(r, e), e)
<1>1. CASE r = Corrupt
  BY <1>1, LineCorrupt DEF Takes
<1>2. CASE r # Corrupt /\ e.seq < r.next
  BY <1>2, LineSkipped DEF Takes
<1>3. CASE r # Corrupt /\ e.seq = r.next
  BY <1>3, LineApplied DEF Takes
<1>4. CASE r # Corrupt /\ ~(e.seq <= r.next)
  <2>1. e.seq # r.next /\ ~(e.seq < r.next)
    BY <1>4
  <2>2. ReplayLine(r, e) = ApplyEvent(r, e)
    BY <1>4, <2>1, Zenon DEF ReplayLine
  <2>3. ReplayLine(r, e) = Corrupt
    BY <2>1, <2>2, Zenon DEF ApplyEvent
  <2> QED BY <2>3 DEF Takes
<1> QED BY <1>1, <1>2, <1>3, <1>4

LEMMA TornLast ==
  ASSUME IInv, ledger # <<>>, Last(ledger) = Torn
  PROVE  Recovered = Corrupt
<1> DEFINE f == SubSeq(ledger, 1, Len(ledger) - 1)
<1>1. ledger \in Seq(Line) /\ Len(ledger) \in Nat \ {0}
  BY EmptySeq DEF IInv, Shape
<1>2. f \in Seq(Line) /\ ledger = Append(f, Torn)
  BY <1>1 DEF Last
<1> HIDE DEF f
<1>3. Replay(Load, Append(f, Torn)) = ReplayLine(Replay(Load, f), Torn)
  BY <1>2, TornIs, ReplayAppend
<1>4. Recovered = Replay(Load, Append(f, Torn))
  BY <1>2 DEF Recovered
<1> QED BY <1>3, <1>4, LineCorrupt

(* The ledger with a line more, or half a line.                             *)
Extends(l, ll, e) ==
  /\ ll \in Seq(Line)
  /\ \A i \in DOMAIN ll : ll[i] \in {e, Torn} \/ (i \in DOMAIN l /\ ll[i] = l[i])
  /\ \A i \in DOMAIN l : i \in DOMAIN ll /\ ll[i] = l[i]

LEMMA AppendExtends ==
  ASSUME NEW l \in Seq(Line), NEW e \in Line, NEW x \in {e, Torn}
  PROVE  Extends(l, AppendLine(l, x), e)
<1>1. x \in Line
  BY TornIs
<1>2. CASE AppendLine(l, x) = l
  BY <1>2 DEF Extends
<1>3. CASE AppendLine(l, x) = Append(l, x)
  <2> DEFINE k == Append(l, x)
  <2>1. k \in Seq(Line) /\ \A i \in DOMAIN k : k[i] = x \/ (i \in DOMAIN l /\ k[i] = l[i])
    BY <1>1
  <2>2. \A i \in DOMAIN l : i \in DOMAIN k /\ k[i] = l[i]
    BY <1>1
  <2> HIDE DEF k
  <2>3. Extends(l, k, e)
    BY <2>1, <2>2 DEF Extends
  <2> QED BY <1>3, <2>3 DEF k
<1> QED BY <1>2, <1>3, Zenon DEF AppendLine

(* What a start would find after a line was appended.                       *)
LEMMA LineAdded ==
  ASSUME IInv, NEW e \in Line, e # Torn,
         UNCHANGED <<stateFile, checkpoint, manifest>>, ledger' = AppendLine(ledger, e)
  PROVE  Takes(Recovered, Recovered', e)
<1>1. ledger \in Seq(Line) /\ (Recovered = Corrupt \/ Recovered.next \in Nat)
  BY DEF IInv, Shape, Readable, StateOK
<1>2. e.seq \in Nat
  BY LineSeq
<1>3. CASE ledger' = ledger /\ ledger # <<>> /\ Last(ledger) = Torn
  BY <1>3, RecoveredSame, TornLast DEF Takes
<1>4. CASE ledger' = Append(ledger, e)
  <2>1. Recovered' = ReplayLine(Recovered, e)
    BY <1>1, <1>4, RecoveredAppend
  <2> QED BY <1>1, <1>2, <2>1, LineTaken
<1> QED BY <1>3, <1>4, Zenon DEF AppendLine

LEMMA TornAdded ==
  ASSUME IInv, UNCHANGED <<stateFile, checkpoint, manifest>>,
         ledger' = AppendLine(ledger, Torn)
  PROVE  Recovered' = Corrupt
<1>1. ledger \in Seq(Line)
  BY DEF IInv, Shape
<1>2. CASE ledger' = ledger /\ ledger # <<>> /\ Last(ledger) = Torn
  BY <1>2, RecoveredSame, TornLast
<1>3. CASE ledger' = Append(ledger, Torn)
  BY <1>1, <1>3, TornIs, RecoveredAppend, LineCorrupt
<1> QED BY <1>2, <1>3, Zenon DEF AppendLine

(* What a failed write or a crash leaves of a line.                         *)
LEMMA LeftIs ==
  ASSUME IInv, NEW e \in Line, e # Torn,
         UNCHANGED <<stateFile, checkpoint, manifest>>, ledger' \in Left(ledger, e)
  PROVE  /\ Extends(ledger, ledger', e)
         /\ \/ ledger' = ledger /\ Recovered' = Recovered
            \/ Takes(Recovered, Recovered', e) /\ ledger' = AppendLine(ledger, e)
            \/ Recovered' = Corrupt
<1>0. ledger \in Seq(Line)
  BY DEF IInv, Shape
<1>1. CASE ledger' = ledger
  BY <1>0, <1>1, RecoveredSame DEF Extends
<1>2. CASE ledger' = AppendLine(ledger, e)
  BY <1>0, <1>2, AppendExtends, LineAdded
<1>3. CASE ledger' = AppendLine(ledger, Torn)
  BY <1>0, <1>3, AppendExtends, TornAdded
<1> QED BY <1>1, <1>2, <1>3 DEF Left

(* Whatever is taken, what a start would find can be read.                  *)
LEMMA TakesReadable ==
  ASSUME IInv, NEW e \in Written, UNCHANGED <<stateFile, checkpoint, manifest>>,
         Extends(ledger, ledger', e),
         Recovered' = Corrupt \/ Takes(Recovered, Recovered', e)
  PROVE  Readable'
<1>0. e.seq \in Nat
  BY DEF Written, Event
<1>1. (stateFile = None \/ StateOK(stateFile)) /\ (checkpoint = None \/ StateOK(checkpoint))
  BY DEF IInv, Readable
<1>2. CASE Recovered' = Corrupt
  BY <1>1, <1>2 DEF Readable
<1>3. CASE Recovered' # Corrupt
  <2>1. /\ Recovered # Corrupt /\ StateOK(Recovered) /\ Recovered.next \in Nat \ {0}
        /\ \A i \in DOMAIN ledger : ledger[i].seq < Recovered.next
    BY <1>3 DEF Takes, IInv, Readable, StateOK
  <2>2. StateOK(Recovered') /\ Recovered.next <= Recovered'.next /\ e.seq < Recovered'.next
        /\ Recovered'.next \in Nat \ {0}
    <3>1. CASE e.seq = Recovered.next /\ Recovered' = ApplyEvent(Recovered, e)
      <4>1. StateOK(Recovered')
        BY <2>1, <3>1, WrittenKeeps
      <4>2. Recovered'.next = Recovered.next + 1
        BY <3>1, AppliedOps
      <4> QED BY <2>1, <3>1, <4>1, <4>2
    <3>2. CASE e.seq < Recovered.next /\ Recovered' = Recovered
      BY <2>1, <3>2
    <3> QED BY <1>3, <3>1, <3>2 DEF Takes
  <2>3. ASSUME NEW i \in DOMAIN ledger' PROVE ledger'[i].seq < Recovered'.next
    <3>1. CASE ledger'[i] = e
      BY <2>2, <3>1
    <3>2. CASE ledger'[i] = Torn
      BY <2>2, <3>2, TornIs
    <3>3. CASE i \in DOMAIN ledger /\ ledger'[i] = ledger[i]
      <4>1. ledger[i].seq \in Nat /\ ledger[i].seq < Recovered.next
        BY <2>1, <3>3, LineSeq DEF IInv, Shape
      <4> QED BY <2>1, <2>2, <3>3, <4>1
    <3> QED BY <3>1, <3>2, <3>3 DEF Extends
  <2> QED BY <1>1, <2>2, <2>3 DEF Readable
<1> QED BY <1>2, <1>3

-----------------------------------------------------------------------------
(* Answers that leave the broker's state and the files alone.               *)
LEMMA AnswerKeeps ==
  ASSUME IInv, queue # <<>>, queue' = Tail(queue), pc' = "idle", Up,
         pc \in Busy => after' = "idle", after' \in {after, "idle"},
         UNCHANGED <<mem, since, stateFile, checkpoint, manifest, ledger, admitted, fork>>,
         pins' \subseteq Digest, blobs' \subseteq Digest, held' \subseteq Workflow,
         exposed' \subseteq Digest
  PROVE  IInv'
<1>1. Tail(queue) \in Seq(Calls)
      /\ \A i \in DOMAIN Tail(queue) : \E j \in DOMAIN queue : Tail(queue)[i] = queue[j]
  BY TailQueue
<1>2. Shape'
  BY <1>1 DEF IInv, Shape
<1>3. Waits'
  BY DEF IInv, Waits, Busy, Compacting
<1>4. mem.next \in Nat /\ mem.next <= mem'.next
  BY DEF IInv, Shape, StateOK
<1>5. Queued'
  BY <1>1, <1>4, QueuedFrom
<1>6. Stage'
  BY DEF Stage
<1>7. Readable' /\ Numbered'
  BY ReadableSame DEF Up
<1> QED BY <1>2, <1>3, <1>5, <1>6, <1>7 DEF IInv

LEMMA PutBlobKeeps ==
  ASSUME IInv, PutBlob
  PROVE  IInv'
<1>1. /\ pc \in {"idle", "put"} /\ queue # <<>> /\ Call.kind = "put"
      /\ blobs' = blobs \cup {BodyOf[Call.w]} /\ pins' = pins \cup {BodyOf[Call.w]}
      /\ held' = held \cup {Call.w} /\ queue' = Tail(queue) /\ pc' = "idle"
      /\ exposed' = exposed \ {BodyOf[Call.w]}
      /\ UNCHANGED <<mem, since, after, stateFile, checkpoint, manifest, ledger, admitted, fork>>
  BY DEF PutBlob, Pin, Answered
<1>2. Call.w \in Workflow
  BY <1>1, TailQueue DEF Calls
<1>3. pins' \subseteq Digest /\ blobs' \subseteq Digest /\ held' \subseteq Workflow
      /\ exposed' \subseteq Digest
  BY <1>1, <1>2 DEF IInv, Shape, Digest
<1>4. pc \notin Busy /\ Up
  BY <1>1 DEF Busy, Compacting, Up
<1> QED BY <1>1, <1>3, <1>4, AnswerKeeps

LEMMA RefusesKeeps ==
  ASSUME IInv, PutRefused \/ Refuse
  PROVE  IInv'
<1>1. pc \in {"put", "idle"} /\ (pc = "idle" => queue # <<>>) /\ pc' = "idle"
      /\ queue' = Tail(queue)
      /\ UNCHANGED <<mem, since, pins, held, after, stateFile, checkpoint, manifest,
                     ledger, blobs, admitted, fork, exposed>>
  BY DEF PutRefused, Refuse, Answered, disk, ghost
<1>2. queue # <<>>
  BY <1>1 DEF IInv, Waits
<1>3. pins' \subseteq Digest /\ blobs' \subseteq Digest /\ held' \subseteq Workflow
      /\ exposed' \subseteq Digest
  BY <1>1 DEF IInv, Shape
<1>4. pc \notin Busy /\ Up
  BY <1>1 DEF Busy, Compacting, Up
<1> QED BY <1>1, <1>2, <1>3, <1>4, AnswerKeeps

LEMMA CompactFailsKeeps ==
  ASSUME IInv, CompactFails
  PROVE  IInv'
<1>1. pc \in Compacting /\ after # "init" /\ pc' = "idle" /\ after' = "idle"
      /\ queue' = Tail(queue)
      /\ UNCHANGED <<mem, since, pins, held, stateFile, checkpoint, manifest, ledger,
                     blobs, admitted, fork, exposed>>
  BY DEF CompactFails, Answered, disk
<1>2. queue # <<>>
  BY <1>1 DEF IInv, Waits, Busy
<1>3. pins' \subseteq Digest /\ blobs' \subseteq Digest /\ held' \subseteq Workflow
      /\ exposed' \subseteq Digest
  BY <1>1 DEF IInv, Shape
<1>4. Up
  BY <1>1 DEF Compacting, Up
<1> QED BY <1>1, <1>2, <1>3, <1>4, AnswerKeeps

(* The calls that wait for a compaction.                                    *)
LEMMA CompactsKeeps ==
  ASSUME IInv, PutCompacts \/ MakeRoom
  PROVE  IInv'
<1>1. pc = "idle" /\ queue # <<>> /\ pc' = "compact" /\ after' \in {"put", "append"}
      /\ UNCHANGED <<mem, since, pins, held, queue, stateFile, checkpoint, manifest,
                     ledger, blobs, admitted, fork, exposed>>
  BY DEF PutCompacts, MakeRoom, disk, ghost
<1>2. Shape'
  BY <1>1 DEF IInv, Shape
<1>3. Waits'
  BY <1>1 DEF Waits
<1>4. Queued'
  BY <1>1 DEF IInv, Queued
<1>5. Stage'
  BY <1>1 DEF Stage
<1>6. Readable' /\ Numbered'
  BY <1>1, ReadableSame DEF Up
<1> QED BY <1>2, <1>3, <1>4, <1>5, <1>6 DEF IInv

LEMMA TimePassesKeeps ==
  ASSUME IInv, TimePasses
  PROVE  IInv'
<1>1. pc = "idle" /\ pins' = {}
      /\ UNCHANGED <<mem, since, held, queue, pc, after, stateFile, checkpoint, manifest,
                     ledger, blobs, admitted, fork, exposed>>
  BY DEF TimePasses, disk
<1>2. Shape'
  BY <1>1 DEF IInv, Shape
<1>3. Waits'
  BY <1>1 DEF IInv, Waits, Busy, Compacting
<1>4. Queued'
  BY <1>1 DEF IInv, Queued
<1>5. Stage'
  BY <1>1 DEF Stage
<1>6. Readable' /\ Numbered'
  BY <1>1, ReadableSame DEF Up
<1> QED BY <1>2, <1>3, <1>4, <1>5, <1>6 DEF IInv

-----------------------------------------------------------------------------
(* The append: after it every line is older than the next event.            *)
AppendIs(e) ==
  /\ pc \in {"idle", "append"} /\ queue # <<>> /\ Call.kind \in {"start", "persist"}
  /\ Admits(Call)
  /\ ledger' = AppendLine(ledger, e) /\ mem' = ApplyEvent(mem, e)
  /\ pins' = pins \ {e.rec.body}
  /\ exposed' = exposed \cup Exposes(e)
  /\ fork' = (IF fork = "no" /\ ~(Strays \subseteq {e}) THEN "open" ELSE fork)
  /\ held' = IF e.rec.body # None \/ e.rec.status = "ended" THEN held \ {e.w} ELSE held
  /\ since' = since + 1
  /\ UNCHANGED <<stateFile, checkpoint, manifest, blobs>>
  /\ \/ /\ pc' = "compact" /\ after' = "answer" /\ UNCHANGED <<queue, admitted>>
     \/ /\ pc' = "idle" /\ after' = after /\ queue' = Tail(queue)
        /\ admitted' = admitted \cup (IF e.starts THEN {<<KeyOf[e.w], e.w>>} ELSE {})
  /\ Fits(mem, e) /\ e \in Line /\ e # Torn /\ e \in Written
  /\ e.w = Call.w /\ e.starts = (Call.kind = "start")
  /\ Up /\ mem.next \in Nat \ {0} /\ e.seq = mem.next /\ mem'.next = mem.next + 1

LEMMA AppendEventIs ==
  ASSUME IInv, AppendEvent
  PROVE  AppendIs(EventOf(Call))
<1> DEFINE e == EventOf(Call)
<1>1. /\ pc \in {"idle", "append"} /\ queue # <<>> /\ Call.kind \in {"start", "persist"}
      /\ Admits(Call)
      /\ ledger' = AppendLine(ledger, e) /\ mem' = ApplyEvent(mem, e)
      /\ pins' = pins \ {e.rec.body}
      /\ exposed' = exposed \cup Exposes(e)
      /\ fork' = (IF fork = "no" /\ ~(Strays \subseteq {e}) THEN "open" ELSE fork)
      /\ held' = IF e.rec.body # None \/ e.rec.status = "ended" THEN held \ {e.w} ELSE held
      /\ since' = since + 1
      /\ UNCHANGED <<stateFile, checkpoint, manifest, blobs>>
  BY DEF AppendEvent
<1>2. \/ /\ pc' = "compact" /\ after' = "answer" /\ UNCHANGED <<queue, admitted>>
      \/ /\ pc' = "idle" /\ after' = after /\ queue' = Tail(queue)
         /\ admitted' = admitted \cup (IF e.starts THEN {<<KeyOf[e.w], e.w>>} ELSE {})
  BY DEF AppendEvent, Answered
<1>3. Fits(mem, e) /\ e \in Line /\ e # Torn /\ e.w = Call.w /\ e.starts = (Call.kind = "start")
  BY <1>1, EventFits
<1>4. Up /\ StateOK(mem)
  BY <1>1 DEF Up, IInv, Shape
<1> HIDE DEF e
<1>5. e \in Written /\ e.seq = mem.next /\ mem.next \in Nat \ {0}
  BY <1>3, <1>4 DEF Fits, StateOK
<1>6. mem'.next = mem.next + 1
  BY <1>1, <1>5, AppliedOps
<1>7. AppendIs(e)
  BY <1>1, <1>2, <1>3, <1>4, <1>5, <1>6 DEF AppendIs
<1> QED BY <1>7 DEF e

LEMMA AppendedLines ==
  ASSUME IInv, NEW e, AppendIs(e)
  PROVE  /\ Extends(ledger, ledger', e) /\ Takes(Recovered, Recovered', e)
         /\ \A i \in DOMAIN ledger' : ledger'[i].seq < mem'.next
         /\ Strays' = {}
<1>1. Extends(ledger, ledger', e) /\ Takes(Recovered, Recovered', e)
  <2>1. e \in Line /\ e # Torn /\ ledger' = AppendLine(ledger, e) /\ ledger \in Seq(Line)
        /\ UNCHANGED <<stateFile, checkpoint, manifest>>
    BY DEF AppendIs, IInv, Shape
  <2> QED BY <2>1, AppendExtends, LineAdded
<1>2. ASSUME NEW i \in DOMAIN ledger' PROVE ledger'[i].seq < mem'.next
  <2>1. mem.next \in Nat \ {0} /\ e.seq = mem.next /\ mem'.next = mem.next + 1 /\ Up
    BY DEF AppendIs
  <2>2. CASE ledger'[i] \in {e, Torn}
    BY <2>1, <2>2, TornIs
  <2>3. CASE i \in DOMAIN ledger /\ ledger'[i] = ledger[i]
    <3>1. ledger[i].seq \in Nat /\ ledger[i].seq <= mem.next
      BY <2>1, <2>3, LineSeq DEF IInv, Shape, Numbered
    <3> QED BY <2>1, <2>3, <3>1
  <2> QED BY <1>1, <2>2, <2>3 DEF Extends
<1>3. Strays' = {}
  <2>1. mem'.next \in Nat
    BY DEF AppendIs
  <2> SUFFICES ASSUME NEW x \in Strays' PROVE FALSE
    OBVIOUS
  <2>2. PICK i \in DOMAIN ledger' : ledger'[i].seq = mem'.next
    BY DEF Strays
  <2> QED BY <1>2, <2>1, <2>2
<1> QED BY <1>1, <1>2, <1>3

LEMMA AppendKeeps ==
  ASSUME IInv, AppendEvent
  PROVE  IInv'
<1> DEFINE e == EventOf(Call)
<1>1. AppendIs(e)
  BY AppendEventIs
<1> HIDE DEF e
<1>2. /\ Extends(ledger, ledger', e) /\ Takes(Recovered, Recovered', e)
      /\ \A i \in DOMAIN ledger' : ledger'[i].seq < mem'.next
      /\ Strays' = {}
  BY <1>1, AppendedLines
<1>3. StateOK(mem')
  <2>1. StateOK(mem) /\ e \in Written /\ e.seq = mem.next /\ mem' = ApplyEvent(mem, e)
    BY <1>1 DEF AppendIs, IInv, Shape
  <2> QED BY <2>1, WrittenKeeps
<1>4. e.starts => KeyOf[e.w] \in DOMAIN mem'.ops /\ mem'.ops[KeyOf[e.w]] = e.w
  <2>1. Fits(mem, e) /\ mem' = ApplyEvent(mem, e)
    BY <1>1 DEF AppendIs
  <2>2. e.starts => KeyOf[e.w] \in DOMAIN ApplyEvent(mem, e).ops
                    /\ ApplyEvent(mem, e).ops[KeyOf[e.w]] = e.w
    BY <2>1, FitsOps, Zenon
  <2> QED BY <2>1, <2>2, Zenon
<1>5. Shape'
  <2>1. queue' \in Seq(Calls)
    <3>1. queue # <<>> /\ (queue' = queue \/ queue' = Tail(queue))
      BY <1>1 DEF AppendIs
    <3> QED BY <3>1, TailQueue DEF IInv, Shape
  <2>2. pins' \subseteq Digest /\ blobs' \subseteq Digest /\ held' \subseteq Workflow
        /\ since' \in Nat /\ fork' \in {"no", "open", "lost"}
    BY <1>1 DEF AppendIs, IInv, Shape
  <2>3. exposed' \subseteq Digest
    BY <1>1 DEF AppendIs, Exposes, IInv, Shape, Digest
  <2>4. ledger' \in Seq(Line)
    BY <1>2 DEF Extends
  <2>5. admitted' \subseteq Key \X Workflow
    <3>1. e.w \in Workflow /\ KeyOf[e.w] \in Key
      BY <1>1 DEF AppendIs, Written, Event, Key
    <3> QED BY <1>1, <3>1 DEF AppendIs, IInv, Shape
  <2>6. pc' \in {"compact", "idle"} /\ after' \in {"answer", after}
    BY <1>1 DEF AppendIs
  <2> QED BY <1>3, <2>1, <2>2, <2>3, <2>4, <2>5, <2>6 DEF IInv, Shape
<1>6. Waits'
  <2>1. CASE pc' = "compact" /\ after' = "answer" /\ UNCHANGED <<queue, admitted>>
    <3>1. queue' # <<>> /\ Call' = Call
      BY <1>1, <2>1 DEF Call, AppendIs
    <3>2. e.w = Call.w /\ e.starts = (Call.kind = "start")
      BY <1>1 DEF AppendIs
    <3> QED BY <1>4, <2>1, <3>1, <3>2 DEF Waits, Busy
  <2>2. CASE pc' = "idle" /\ after' = after
    <3>1. after # "answer"
      BY <1>1 DEF AppendIs, IInv, Waits, Busy, Compacting
    <3> QED BY <2>2, <3>1 DEF Waits, Busy, Compacting
  <2> QED BY <1>1, <2>1, <2>2 DEF AppendIs
<1>7. Queued'
  <2>1. \A i \in DOMAIN queue' : \E j \in DOMAIN queue : queue'[i] = queue[j]
    <3>1. queue # <<>> /\ (queue' = queue \/ queue' = Tail(queue))
      BY <1>1 DEF AppendIs
    <3> QED BY <3>1, TailQueue
  <2>2. mem.next \in Nat /\ mem'.next \in Nat /\ mem.next <= mem'.next
    BY <1>1 DEF AppendIs
  <2> QED BY <2>1, <2>2, QueuedFrom
<1>8. Stage'
  BY <1>1 DEF Stage, AppendIs
<1>9. Numbered'
  <2>1. mem'.next \in Nat /\ \A i \in DOMAIN ledger' : ledger'[i].seq \in Nat
    BY <1>1, <1>5, LineSeq DEF AppendIs, Shape
  <2>2. \A i \in DOMAIN ledger' : ledger'[i].seq <= mem'.next
    BY <1>2, <2>1
  <2>3. Strays' = {}
    BY <1>2
  <2>4. (\A x \in Strays : Fits(mem, x))'
    BY <2>3
  <2>5. (\A i \in DOMAIN ledger : ledger[i].seq <= mem.next)'
    BY <2>2
  <2> QED BY <2>4, <2>5 DEF Numbered
<1>10. Readable'
  <2>1. e \in Written /\ UNCHANGED <<stateFile, checkpoint, manifest>>
    BY <1>1 DEF AppendIs
  <2> QED BY <1>2, <2>1, TakesReadable
<1> QED BY <1>5, <1>6, <1>7, <1>8, <1>9, <1>10 DEF IInv

(* A failed append, and a crash in one, leave a line, a part or nothing.    *)
LeftOf(e) ==
  /\ queue # <<>> /\ Call.kind \in {"start", "persist"} /\ Admits(Call)
  /\ ledger' \in Left(ledger, e) /\ UNCHANGED <<stateFile, checkpoint, manifest, blobs>>
  /\ Fits(mem, e) /\ e \in Line /\ e # Torn /\ e \in Written
  /\ e.w = Call.w /\ e.starts = (Call.kind = "start")
  /\ mem.next \in Nat \ {0} /\ e.seq = mem.next

LEMMA LeftOfCall ==
  ASSUME IInv, queue # <<>>, Call.kind \in {"start", "persist"}, Admits(Call),
         ledger' \in Left(ledger, EventOf(Call)),
         UNCHANGED <<stateFile, checkpoint, manifest, blobs>>
  PROVE  LeftOf(EventOf(Call))
<1> DEFINE e == EventOf(Call)
<1>1. Fits(mem, e) /\ e \in Line /\ e # Torn /\ e.w = Call.w /\ e.starts = (Call.kind = "start")
  BY EventFits
<1>2. ledger' \in Left(ledger, e)
  OBVIOUS
<1> HIDE DEF e
<1>3. e \in Written /\ e.seq = mem.next /\ mem.next \in Nat \ {0}
  BY <1>1 DEF Fits, IInv, Shape, StateOK
<1>4. LeftOf(e)
  BY <1>1, <1>2, <1>3 DEF LeftOf
<1> QED BY <1>4 DEF e

LEMMA LeftReadable ==
  ASSUME IInv, NEW e, LeftOf(e)
  PROVE  /\ Extends(ledger, ledger', e) /\ Readable'
         /\ \/ ledger' = ledger /\ Recovered' = Recovered
            \/ Takes(Recovered, Recovered', e) /\ ledger' = AppendLine(ledger, e)
            \/ Recovered' = Corrupt
<1>1. e \in Line /\ e # Torn /\ e \in Written /\ ledger' \in Left(ledger, e)
      /\ UNCHANGED <<stateFile, checkpoint, manifest>>
  BY DEF LeftOf
<1>2. /\ Extends(ledger, ledger', e)
      /\ \/ ledger' = ledger /\ Recovered' = Recovered
         \/ Takes(Recovered, Recovered', e) /\ ledger' = AppendLine(ledger, e)
         \/ Recovered' = Corrupt
  BY <1>1, LeftIs
<1>3. CASE ledger' = ledger /\ Recovered' = Recovered
  BY <1>1, <1>2, <1>3 DEF IInv, Readable
<1>4. CASE Recovered' = Corrupt \/ Takes(Recovered, Recovered', e)
  BY <1>1, <1>2, <1>4, TakesReadable
<1> QED BY <1>2, <1>3, <1>4

LEMMA AppendFailsKeeps ==
  ASSUME IInv, AppendFails
  PROVE  IInv'
<1> DEFINE e == EventOf(Call)
<1>1. /\ pc \in {"idle", "append"} /\ queue # <<>> /\ queue' = Tail(queue) /\ pc' = "idle"
      /\ UNCHANGED <<mem, since, pins, held, after, stateFile, checkpoint, manifest, blobs,
                     admitted, fork, exposed>>
  BY DEF AppendFails, Answered
<1>2. LeftOf(e)
  BY <1>1, LeftOfCall DEF AppendFails
<1> HIDE DEF e
<1>3. Extends(ledger, ledger', e) /\ Readable'
  BY <1>2, LeftReadable
<1>4. pc \notin Busy /\ Up /\ mem.next \in Nat \ {0} /\ mem.next <= mem'.next
  BY <1>1 DEF Busy, Compacting, Up, IInv, Shape, StateOK
<1>5. Tail(queue) \in Seq(Calls)
      /\ \A i \in DOMAIN Tail(queue) : \E j \in DOMAIN queue : Tail(queue)[i] = queue[j]
  BY <1>1, TailQueue
<1>6. Shape'
  BY <1>1, <1>3, <1>5 DEF IInv, Shape, Extends
<1>7. Waits'
  BY <1>1, <1>4 DEF IInv, Waits, Busy, Compacting
<1>8. Queued'
  BY <1>1, <1>4, <1>5, QueuedFrom
<1>9. Stage'
  BY <1>1 DEF Stage
<1>10. Numbered'
  <2>1. ASSUME NEW i \in DOMAIN ledger'
        PROVE  ledger'[i].seq <= mem.next /\ (ledger'[i].seq = mem.next => Fits(mem, ledger'[i]))
    <3>1. CASE ledger'[i] = e
      BY <1>2, <1>4, <3>1 DEF LeftOf
    <3>2. CASE ledger'[i] = Torn
      BY <1>4, <3>2, TornIs
    <3>3. CASE i \in DOMAIN ledger /\ ledger'[i] = ledger[i]
      <4>1. ledger[i].seq <= mem.next
        BY <1>4, <3>3 DEF IInv, Numbered
      <4>2. ledger[i].seq = mem.next => ledger[i] \in Strays
        BY <3>3 DEF Strays
      <4> QED BY <1>4, <3>3, <4>1, <4>2 DEF IInv, Numbered
    <3> QED BY <1>3, <3>1, <3>2, <3>3 DEF Extends
  <2> QED BY <1>1, <2>1 DEF Numbered, Strays
<1> QED BY <1>3, <1>6, <1>7, <1>8, <1>9, <1>10 DEF IInv


-----------------------------------------------------------------------------
(* A file is replaced by the broker's state: a start would find it, or it   *)
(* with the event of a failed write.                                        *)
Renewed(r) == r = Recovered \/ Replayed(mem, ledger, r)

LEMMA LoadRenewed ==
  ASSUME IInv, Up, Load' \in {Load, mem}, UNCHANGED <<mem, ledger>>
  PROVE  Renewed(Recovered')
<1>1. /\ StateOK(mem) /\ ledger \in Seq(Line) /\ mem.next \in Nat /\ mem # Corrupt
  BY OKIsState DEF IInv, Shape, StateOK
<1>2. \A i \in DOMAIN ledger : ledger[i].seq \in Nat /\ ledger[i].seq <= mem.next
  <2> SUFFICES ASSUME NEW i \in DOMAIN ledger
               PROVE  ledger[i].seq \in Nat /\ ledger[i].seq <= mem.next
    OBVIOUS
  <2>1. ledger[i] \in Line
    BY <1>1
  <2> QED BY <2>1, LineSeq DEF IInv, Numbered
<1>3. CASE Load' = Load
  BY <1>3 DEF Recovered, Renewed
<1>4. CASE Load' = mem
  <2>1. Recovered' = Replay(mem, ledger)
    BY <1>4 DEF Recovered
  <2> QED BY <1>1, <1>2, <2>1, ReplayOver DEF Renewed
<1> QED BY <1>3, <1>4

LEMMA StrayLine ==
  ASSUME IInv, NEW i \in DOMAIN ledger, ledger[i].seq = mem.next
  PROVE  ledger[i] \in Strays /\ ledger[i] \in Written
<1>1. ledger[i] \in Line /\ mem.next # 0
  BY DEF IInv, Shape, StateOK
<1>2. ledger[i] # Torn
  BY <1>1, TornIs
<1> QED BY <1>1, <1>2, LineSeq DEF Strays

LEMMA RenewedReadable ==
  ASSUME IInv, Up, Renewed(Recovered'), stateFile' \in {stateFile, mem},
         checkpoint' \in {checkpoint, mem}, UNCHANGED <<mem, ledger>>
  PROVE  Readable'
<1>1. StateOK(mem) /\ mem.next \in Nat
  BY DEF IInv, Shape, StateOK
<1>2. (stateFile' = None \/ StateOK(stateFile')) /\ (checkpoint' = None \/ StateOK(checkpoint'))
  BY <1>1 DEF IInv, Readable
<1> DEFINE r == Recovered'
<1>3. \/ r = Corrupt
      \/ StateOK(r) /\ \A i \in DOMAIN ledger : ledger[i].seq < r.next
  <2>1. CASE r = Recovered
    BY <2>1 DEF IInv, Readable
  <2>2. CASE Replayed(mem, ledger, r)
    <3>0. r = Corrupt \/ r = mem \/ r # Corrupt
      OBVIOUS
    <3>1. CASE r = mem /\ \A i \in DOMAIN ledger : ledger[i].seq < mem.next
      BY <1>1, <3>1
    <3>2. CASE \E i \in DOMAIN ledger :
                 ledger[i] # Torn /\ ledger[i].seq = mem.next /\ r = ApplyEvent(mem, ledger[i])
      <4>1. PICK i \in DOMAIN ledger :
                 ledger[i].seq = mem.next /\ r = ApplyEvent(mem, ledger[i])
        BY <3>2
      <4> HIDE DEF r
      <4>2. ledger[i] \in Written
        BY <4>1, StrayLine
      <4>3. StateOK(r) /\ r.next = mem.next + 1
        BY <1>1, <4>1, <4>2, WrittenKeeps, AppliedOps
      <4>4. \A j \in DOMAIN ledger : ledger[j].seq \in Nat /\ ledger[j].seq <= mem.next
        <5> SUFFICES ASSUME NEW j \in DOMAIN ledger
                     PROVE  ledger[j].seq \in Nat /\ ledger[j].seq <= mem.next
          OBVIOUS
        <5>1. ledger[j] \in Line
          BY DEF IInv, Shape
        <5> QED BY <5>1, LineSeq DEF IInv, Numbered
      <4> QED BY <1>1, <4>3, <4>4
    <3> HIDE DEF r
    <3> QED BY <2>2, <3>1, <3>2 DEF Replayed
  <2> QED BY <2>1, <2>2 DEF Renewed
<1> QED BY <1>2, <1>3 DEF Readable

LEMMA ReplacedKeeps ==
  ASSUME IInv, pc \in {"init", "state", "checkpoint", "manifest"}, Up',
         Load' \in {Load, mem}, stateFile' \in {stateFile, mem},
         checkpoint' \in {checkpoint, mem},
         pc' \in {"idle"} \cup Compacting, (pc' = "idle" <=> pc = "init"), Stage',
         UNCHANGED <<mem, since, pins, held, queue, after, ledger, blobs, admitted, fork, exposed>>
  PROVE  IInv' /\ Renewed(Recovered')
<1>1. Up
  BY DEF Up
<1>2. Shape'
  BY DEF IInv, Shape
<1>3. Waits'
  <2>1. CASE pc = "init"
    BY <2>1 DEF IInv, Waits, Busy, Compacting
  <2>2. CASE pc # "init"
    <3>1. pc \in Busy /\ pc' \in Busy /\ pc' # "put" /\ pc' # "append"
      BY <2>2 DEF Busy, Compacting
    <3> QED BY <3>1 DEF IInv, Waits, Call
  <2> QED BY <2>1, <2>2
<1>4. Queued'
  BY DEF IInv, Queued
<1>5. Renewed(Recovered')
  BY <1>1, LoadRenewed
<1>6. Readable'
  BY <1>1, <1>5, RenewedReadable
<1>7. Numbered'
  BY <1>1 DEF IInv, Numbered, Strays
<1> QED BY <1>2, <1>3, <1>4, <1>5, <1>6, <1>7 DEF IInv

LEMMA OpenedKeeps ==
  ASSUME IInv, Opened
  PROVE  IInv' /\ Renewed(Recovered')
<1>1. /\ pc = "init" /\ stateFile' = mem /\ pc' = "idle"
      /\ UNCHANGED <<mem, since, pins, held, queue, after, checkpoint, manifest, ledger,
                     blobs, admitted, fork, exposed>>
  BY DEF Opened, ghost
<1>2. mem # None
  BY OKIsState DEF IInv, Shape
<1>3. Load' \in {Load, mem}
  BY <1>1, <1>2 DEF Load
<1>4. Stage' /\ Up'
  BY <1>1 DEF Stage, Up
<1> QED BY <1>1, <1>3, <1>4, ReplacedKeeps

LEMMA WriteStateKeeps ==
  ASSUME IInv, WriteState
  PROVE  IInv' /\ Renewed(Recovered')
<1>1. /\ pc = "state" /\ stateFile' = mem /\ pc' = "checkpoint"
      /\ UNCHANGED <<mem, since, pins, held, queue, after, checkpoint, manifest, ledger,
                     blobs, admitted, fork, exposed>>
  BY DEF WriteState, ghost
<1>2. mem # None
  BY OKIsState DEF IInv, Shape
<1>3. Load' \in {Load, mem}
  BY <1>1, <1>2 DEF Load
<1>4. Stage' /\ Up'
  BY <1>1 DEF Stage, Up
<1>5. pc' \in Compacting
  BY <1>1 DEF Compacting
<1> QED BY <1>1, <1>3, <1>4, <1>5, ReplacedKeeps

LEMMA WriteCheckpointKeeps ==
  ASSUME IInv, WriteCheckpoint
  PROVE  IInv' /\ Renewed(Recovered')
<1>1. /\ pc = "checkpoint" /\ checkpoint' = mem /\ pc' = "manifest"
      /\ UNCHANGED <<mem, since, pins, held, queue, after, stateFile, manifest, ledger,
                     blobs, admitted, fork, exposed>>
  BY DEF WriteCheckpoint, ghost
<1>2. mem # None /\ stateFile = mem
  BY <1>1, OKIsState DEF IInv, Shape, Stage
<1>3. Load' = mem
  BY <1>1, <1>2 DEF Load
<1>4. Stage' /\ Up'
  BY <1>1, <1>2 DEF Stage, Up
<1>5. pc' \in Compacting
  BY <1>1 DEF Compacting
<1> QED BY <1>1, <1>3, <1>4, <1>5, ReplacedKeeps

LEMMA WriteManifestKeeps ==
  ASSUME IInv, WriteManifest
  PROVE  IInv' /\ Renewed(Recovered')
<1>1. /\ pc = "manifest" /\ manifest' = mem /\ pc' = "events"
      /\ UNCHANGED <<mem, since, pins, held, queue, after, stateFile, checkpoint, ledger,
                     blobs, admitted, fork, exposed>>
  BY DEF WriteManifest, ghost
<1>2. mem # None /\ stateFile = mem /\ checkpoint = mem
  BY <1>1, OKIsState DEF IInv, Shape, Stage
<1>3. Load' = mem
  BY <1>1, <1>2 DEF Load
<1>4. Stage' /\ Up'
  BY <1>1, <1>2 DEF Stage, Up
<1>5. pc' \in Compacting
  BY <1>1 DEF Compacting
<1> QED BY <1>1, <1>3, <1>4, <1>5, ReplacedKeeps

(* Only then is the ledger emptied.                                         *)
LEMMA AfterManifest ==
  ASSUME IInv, pc \in {"events", "blobs"}
  PROVE  Load = mem /\ (pc = "blobs" => Recovered = mem)
<1>1. mem # None /\ checkpoint = mem /\ manifest = mem /\ (pc = "blobs" => ledger = <<>>)
  BY OKIsState DEF IInv, Shape, Stage
<1>2. Load = mem
  BY <1>1 DEF Load
<1> QED BY <1>1, <1>2, ReplayEmpty DEF Recovered

LEMMA TruncateKeeps ==
  ASSUME IInv, TruncateLedger
  PROVE  IInv' /\ Recovered' = mem /\ Strays' = {}
<1>1. /\ pc = "events" /\ ledger' = <<>> /\ since' = 0 /\ pc' = "blobs"
      /\ fork' = (IF fork = "open" THEN "no" ELSE fork)
      /\ UNCHANGED <<mem, pins, held, queue, after, stateFile, checkpoint, manifest,
                     blobs, admitted, exposed>>
  BY DEF TruncateLedger, ghost
<1>2. Load' = mem
  <2>1. Load = mem
    BY <1>1, AfterManifest
  <2> QED BY <1>1, <2>1 DEF Load
<1>3. Recovered' = mem
  BY <1>1, <1>2, ReplayEmpty DEF Recovered
<1>4. StateOK(mem) /\ Up
  BY <1>1 DEF IInv, Shape, Up
<1>5. <<>> \in Seq(Line) /\ DOMAIN <<>> = {}
  OBVIOUS
<1>6. Shape'
  BY <1>1, <1>5 DEF IInv, Shape, Compacting
<1>7. Waits'
  BY <1>1 DEF IInv, Waits, Busy, Compacting, Call
<1>8. Queued'
  BY <1>1 DEF IInv, Queued
<1>9. Stage'
  BY <1>1 DEF IInv, Stage
<1>10. Strays' = {}
  BY <1>1, <1>5 DEF Strays
<1>11. Numbered'
  BY <1>1, <1>5, <1>10 DEF Numbered
<1>12. Readable'
  BY <1>1, <1>3, <1>4, <1>5 DEF IInv, Readable
<1> QED BY <1>3, <1>6, <1>7, <1>8, <1>9, <1>10, <1>11, <1>12 DEF IInv

LEMMA RetainKeeps ==
  ASSUME IInv, Retain
  PROVE  IInv' /\ Recovered' = Recovered /\ Strays' = Strays /\ Near(mem, mem')
<1>1. /\ pc = "compact" /\ mem' = ApplyRetention(mem) /\ pc' = "state"
      /\ UNCHANGED <<since, pins, held, queue, after, stateFile, checkpoint, manifest,
                     ledger, blobs, admitted, fork, exposed>>
  BY DEF Retain, disk, ghost
<1>2. StateOK(mem) /\ StateOK(mem') /\ Near(mem, mem') /\ Up /\ Up'
  BY <1>1, RetentionNear DEF IInv, Shape, Up
<1>3. mem'.next = mem.next /\ mem'.ops = mem.ops /\ mem.next \in Nat
  BY <1>2 DEF Near, StateOK
<1>4. Shape'
  BY <1>1, <1>2 DEF IInv, Shape, Compacting
<1>5. Waits'
  BY <1>1, <1>3 DEF IInv, Waits, Busy, Compacting, Call
<1>6. Queued'
  BY <1>1, <1>3, QueuedFrom
<1>7. Stage'
  BY <1>1 DEF Stage
<1>8. Recovered' = Recovered /\ Strays' = Strays
  BY <1>1, <1>3, RecoveredSame DEF Strays
<1>9. Readable'
  BY <1>1, <1>8 DEF IInv, Readable
<1>10. Numbered'
  <2>1. \A x \in Strays : Fits(mem', x)
    <3> SUFFICES ASSUME NEW x \in Strays PROVE Fits(mem', x)
      OBVIOUS
    <3>1. Fits(mem, x)
      BY <1>2 DEF IInv, Numbered
    <3> QED BY <1>2, <3>1, FitsNear
  <2>2. (\A x \in Strays : Fits(mem, x))'
    BY <1>8, <2>1
  <2>3. (\A i \in DOMAIN ledger : ledger[i].seq <= mem.next)'
    BY <1>1, <1>2, <1>3 DEF IInv, Numbered
  <2> QED BY <2>2, <2>3 DEF Numbered
<1> QED BY <1>2, <1>4, <1>5, <1>6, <1>7, <1>8, <1>9, <1>10 DEF IInv

-----------------------------------------------------------------------------
(* The end of a compaction, and the start.                                  *)
LEMMA ReconcileKeeps ==
  ASSUME IInv, ReconcileBlobs
  PROVE  IInv'
<1>1. /\ pc = "blobs" /\ blobs' = blobs \cap KeptBodies /\ after' = "idle"
      /\ UNCHANGED <<mem, since, pins, held, stateFile, checkpoint, manifest, ledger, fork,
                     exposed>>
  BY DEF ReconcileBlobs, WithoutUnreferenced
<1>2. Up /\ StateOK(mem) /\ mem.next \in Nat /\ mem.next <= mem'.next
  BY <1>1 DEF Up, IInv, Shape, StateOK
<1>3. pins' \subseteq Digest /\ blobs' \subseteq Digest /\ held' \subseteq Workflow
      /\ exposed' \subseteq Digest
  BY <1>1 DEF IInv, Shape
<1>4. Readable' /\ Numbered'
  BY <1>1, <1>2, ReadableSame
<1>5. CASE after = "answer"
  <2>1. /\ queue' = Tail(queue) /\ pc' = "idle"
        /\ admitted' = admitted \cup
             (IF Call.kind = "start" THEN {<<KeyOf[Call.w], Call.w>>} ELSE {})
    BY <1>5 DEF ReconcileBlobs, Answered
  <2>2. queue # <<>>
    BY <1>1, <1>5 DEF IInv, Waits, Busy, Compacting
  <2>3. Tail(queue) \in Seq(Calls) /\ Call \in Calls
        /\ \A i \in DOMAIN Tail(queue) : \E j \in DOMAIN queue : Tail(queue)[i] = queue[j]
    BY <2>2, TailQueue
  <2>4. admitted' \subseteq Key \X Workflow
    <3>1. Call.kind = "start" => Call.w \in Workflow /\ KeyOf[Call.w] \in Key
      BY <2>3 DEF Calls, Key
    <3> QED BY <2>1, <3>1 DEF IInv, Shape
  <2>5. Shape'
    BY <1>1, <1>3, <2>1, <2>3, <2>4 DEF IInv, Shape
  <2>6. Waits' /\ Stage'
    BY <1>1, <2>1 DEF Waits, Stage, Busy, Compacting
  <2>7. Queued'
    BY <1>1, <1>2, <2>1, <2>3, QueuedFrom
  <2> QED BY <1>4, <2>5, <2>6, <2>7 DEF IInv
<1>6. CASE after # "answer"
  <2>1. pc' = after /\ UNCHANGED <<queue, admitted>>
    BY <1>6 DEF ReconcileBlobs
  <2>2. pc' \in {"idle", "put", "append", "init"}
    BY <1>6, <2>1 DEF IInv, Shape
  <2>3. Shape'
    BY <1>1, <1>3, <2>1, <2>2 DEF IInv, Shape
  <2>4. Waits'
    BY <1>1, <2>1, <2>2 DEF IInv, Waits, Busy, Compacting
  <2>5. Queued'
    BY <1>1, <2>1 DEF IInv, Queued
  <2>6. Stage'
    BY <2>2 DEF Stage
  <2> QED BY <1>4, <2>3, <2>4, <2>5, <2>6 DEF IInv
<1> QED BY <1>5, <1>6

(* A broker that is gone leaves its files, and maybe a line more.           *)
LEMMA FallenKeeps ==
  ASSUME IInv, LoseMemory, ledger' \in Seq(Line), Readable',
         UNCHANGED <<blobs, admitted, exposed>>
  PROVE  IInv'
<1>1. <<>> \in Seq(Calls) /\ Len(<<>>) = 0 /\ DOMAIN <<>> = {}
  OBVIOUS
<1>2. /\ mem' = Empty /\ since' = 0 /\ pins' = {} /\ held' = {} /\ queue' = <<>>
      /\ pc' = "down" /\ after' = "idle"
      /\ fork' = (IF fork = "open" THEN "lost" ELSE fork)
  BY DEF LoseMemory
<1>3. Shape'
  BY <1>1, <1>2, EmptyOK DEF IInv, Shape
<1>4. Waits' /\ Queued' /\ Stage' /\ Numbered'
  BY <1>1, <1>2 DEF Waits, Queued, Stage, Numbered, Busy, Compacting, Up
<1> QED BY <1>3, <1>4 DEF IInv

LEMMA StartFailsKeeps ==
  ASSUME IInv, StartFails
  PROVE  IInv' /\ Recovered' = Recovered
<1>1. /\ LoseMemory /\ UNCHANGED <<stateFile, checkpoint, manifest, ledger, blobs, admitted,
                                   exposed>>
  BY DEF StartFails, disk
<1>2. Recovered' = Recovered
  BY <1>1, RecoveredSame
<1>3. Readable' /\ ledger' \in Seq(Line)
  BY <1>1, <1>2 DEF IInv, Readable, Shape
<1> QED BY <1>1, <1>2, <1>3, FallenKeeps

CrashLeft ==
  \/ ledger' = ledger /\ Recovered' = Recovered
  \/ LeftOf(EventOf(Call))

LEMMA CrashKeeps ==
  ASSUME IInv, Crash
  PROVE  IInv' /\ CrashLeft
<1>1. /\ LoseMemory
      /\ UNCHANGED <<stateFile, checkpoint, manifest, blobs, admitted, exposed>>
  BY DEF Crash
<1>2. CASE ledger' = ledger
  <2>1. Recovered' = Recovered
    BY <1>1, <1>2, RecoveredSame
  <2>2. Readable' /\ ledger' \in Seq(Line)
    BY <1>1, <1>2, <2>1 DEF IInv, Readable, Shape
  <2> QED BY <1>1, <1>2, <2>1, <2>2, FallenKeeps DEF CrashLeft
<1>3. CASE /\ queue # <<>> /\ Call.kind \in {"start", "persist"} /\ Admits(Call)
           /\ ledger' \in Left(ledger, EventOf(Call))
  <2> DEFINE e == EventOf(Call)
  <2>1. LeftOf(e)
    BY <1>1, <1>3, LeftOfCall
  <2>2. CrashLeft
    BY <2>1 DEF CrashLeft
  <2> HIDE DEF e
  <2>3. Extends(ledger, ledger', e) /\ Readable'
    BY <2>1, LeftReadable
  <2>4. ledger' \in Seq(Line)
    BY <2>3 DEF Extends
  <2> QED BY <1>1, <2>2, <2>3, <2>4, FallenKeeps
<1> QED BY <1>2, <1>3 DEF Crash

LEMMA InitializeKeeps ==
  ASSUME IInv, Initialize
  PROVE  IInv' /\ Recovered' = Recovered /\ mem' = Recovered /\ Strays' = {}
<1>1. /\ pc = "down" /\ Recovered # Corrupt /\ mem' = Recovered
      /\ pins' = {} /\ held' = {} /\ queue' = <<>>
      /\ blobs' = blobs \cap References(Recovered)
      /\ since' = Recovered.next - Load.next
      /\ (pc' = "compact" /\ after' = "init") \/ (pc' = "init" /\ after' = "idle")
      /\ UNCHANGED <<stateFile, checkpoint, manifest, ledger, admitted, fork, exposed>>
  BY DEF Initialize, WithoutUnreferenced, ghost
<1>2. Recovered' = Recovered
  BY <1>1, RecoveredSame
<1>3. /\ StateOK(Recovered) /\ \A i \in DOMAIN ledger : ledger[i].seq < Recovered.next
  BY <1>1 DEF IInv, Readable
<1>4. since' \in Nat
  <2>1. Load.next \in Nat
    <3>1. StateOK(Empty) /\ Corrupt.next \in Nat
      BY EmptyOK DEF Corrupt
    <3>2. Load \in {Empty, Corrupt} \/ StateOK(Load)
      BY DEF Load, IInv, Readable
    <3> QED BY <3>1, <3>2 DEF StateOK
  <2>2. Later(Load, Recovered)
    BY <2>1, ReplayGrows DEF Recovered, IInv, Shape
  <2> QED BY <1>1, <2>1, <2>2 DEF Later
<1>5. <<>> \in Seq(Calls) /\ Len(<<>>) = 0 /\ DOMAIN <<>> = {}
  OBVIOUS
<1>6. Shape'
  BY <1>1, <1>3, <1>4, <1>5 DEF IInv, Shape
<1>7. Waits' /\ Queued' /\ Stage'
  BY <1>1, <1>5 DEF Waits, Queued, Stage, Busy, Compacting
<1>8. mem'.next \in Nat /\ (\A i \in DOMAIN ledger : ledger[i].seq < mem.next)'
  BY <1>1, <1>3 DEF StateOK
<1>9. Strays' = {}
  BY <1>8 DEF Strays
<1>10. Numbered'
  <2>1. ASSUME NEW i \in DOMAIN ledger'
        PROVE  ledger'[i].seq <= mem'.next
    <3>1. ledger'[i] \in Line
      BY <1>1 DEF IInv, Shape
    <3> QED BY <1>8, <3>1, LineSeq
  <2>2. (\A x \in Strays : Fits(mem, x))'
    BY <1>9
  <2> QED BY <2>1, <2>2 DEF Numbered
<1>11. Readable'
  BY <1>1, <1>2, <1>3 DEF IInv, Readable
<1> QED BY <1>1, <1>2, <1>6, <1>7, <1>9, <1>10, <1>11 DEF IInv

-----------------------------------------------------------------------------
(* Every step.                                                              *)
LEMMA InitIInv ==
  ASSUME Init
  PROVE  IInv /\ Recovered = Empty
<1>1. Recovered = Empty
  BY ReplayEmpty DEF Init, Recovered, Load
<1>2. <<>> \in Seq(Calls) /\ <<>> \in Seq(Line) /\ Len(<<>>) = 0 /\ DOMAIN <<>> = {}
  OBVIOUS
<1>3. Shape
  BY <1>2, EmptyOK DEF Init, Shape
<1>4. Waits /\ Queued /\ Stage /\ Numbered
  BY <1>2 DEF Init, Waits, Queued, Stage, Numbered, Busy, Compacting, Up
<1>5. Readable
  BY <1>1, <1>2, EmptyOK DEF Init, Readable
<1> QED BY <1>1, <1>3, <1>4, <1>5 DEF IInv

LEMMA StepKeeps ==
  ASSUME IInv, [Next]_vars
  PROVE  IInv'
<1>1. CASE UNCHANGED vars
  <2>1. UNCHANGED <<mem, since, pins, held, queue, pc, after, stateFile, checkpoint, manifest,
                    ledger, blobs, admitted, fork, exposed>>
    BY <1>1 DEF vars, memory, disk, ghost
  <2>2. Shape' /\ Waits' /\ Queued' /\ Stage'
    BY <2>1 DEF IInv, Shape, Waits, Queued, Stage, Call
  <2>3. Readable' /\ Numbered'
    BY <2>1, ReadableSame DEF Up
  <2> QED BY <2>2, <2>3 DEF IInv
<1>2. CASE \E w \in Workflow : AskStart(w) \/ AskPut(w) \/ AskPersist(w)
  BY <1>2, AskStartKeeps, AskPutKeeps, AskPersistKeeps
<1>3. CASE PutBlob \/ PutCompacts \/ PutRefused \/ Refuse \/ MakeRoom \/ CompactFails
  BY <1>3, PutBlobKeeps, CompactsKeeps, RefusesKeeps, CompactFailsKeeps
<1>4. CASE AppendEvent \/ AppendFails
  BY <1>4, AppendKeeps, AppendFailsKeeps
<1>5. CASE Retain \/ WriteState \/ WriteCheckpoint \/ WriteManifest \/ TruncateLedger
  BY <1>5, RetainKeeps, WriteStateKeeps, WriteCheckpointKeeps, WriteManifestKeeps, TruncateKeeps
<1>6. CASE ReconcileBlobs \/ StartFails \/ Initialize \/ Opened \/ Crash \/ TimePasses
  BY <1>6, ReconcileKeeps, StartFailsKeeps, InitializeKeeps, OpenedKeeps, CrashKeeps,
     TimePassesKeeps
<1> QED BY <1>1, <1>2, <1>3, <1>4, <1>5, <1>6 DEF Next

-----------------------------------------------------------------------------
(* Bodies.                                                                  *)
LEMMA ReferencesApplied ==
  ASSUME NEW s, NEW e, e.seq = s.next
  PROVE  References(ApplyEvent(s, e)) \subseteq References(s) \cup ({e.rec.body} \ {None})
<1> DEFINE t == ApplyEvent(s, e)
<1>1. /\ DOMAIN t.wf = DOMAIN s.wf \cup {e.w} /\ t.wf[e.w] = e.rec
      /\ \A w \in DOMAIN s.wf : w # e.w => t.wf[w] = s.wf[w]
  BY AppliedWorkflows
<1> HIDE DEF t
<1>2. References(t) \subseteq References(s) \cup ({e.rec.body} \ {None})
  BY <1>1 DEF References, Holders
<1> QED BY <1>2 DEF t

LEMMA ReferencesNear ==
  ASSUME NEW r, NEW m, StateOK(r), Near(r, m)
  PROVE  References(m) \subseteq References(r)
<1> SUFFICES ASSUME NEW w \in DOMAIN m.wf, m.wf[w].body # None
             PROVE  w \in DOMAIN r.wf /\ r.wf[w].body = m.wf[w].body
  BY DEF References, Holders
<1>1. w \in DOMAIN r.wf /\ r.wf[w] \in Record
  BY DEF Near, StateOK
<1>2. m.wf[w] = r.wf[w] \/ m.wf[w] = [r.wf[w] EXCEPT !.body = None]
  BY DEF Near, Kept
<1>3. [r.wf[w] EXCEPT !.body = None].body = None
  BY <1>1 DEF Record
<1> QED BY <1>1, <1>2, <1>3

LEMMA EmptyReferences == References(Empty) = {}
<1>1. Empty.wf = <<>> /\ DOMAIN <<>> = {}
  BY DEF Empty
<1> QED BY <1>1 DEF References, Holders

(* A step that may still be taken has its body stored.                      *)
LEMMA CallStored ==
  ASSUME IInv, Stored, queue # <<>>, Call.kind = "persist", Expected(Call),
         Call.next.body # None
  PROVE  Call.next.body \in There
<1>1. /\ Call \in Calls /\ Founded(Call, mem) /\ Backed(Call, mem, held)
  BY TailQueue DEF Stored
<1>2. /\ Call.w \in DOMAIN mem.wf /\ mem.wf[Call.w] = Call.expected
      /\ Call.next.body \in {Call.expected.body, BodyOf[Call.w]}
      /\ Call.next.body = Call.expected.body \/ Call.w \in held
  BY <1>1 DEF Expected, Founded, Backed
<1>3. CASE Call.next.body = Call.expected.body
  BY <1>2, <1>3 DEF Stored, References, Holders
<1>4. CASE Call.w \in held /\ Call.next.body = BodyOf[Call.w]
  BY <1>4 DEF Stored, There
<1> QED BY <1>2, <1>3, <1>4

LEMMA EventStored ==
  ASSUME IInv, Stored, queue # <<>>, Call.kind \in {"start", "persist"}, Admits(Call)
  PROVE  EventOf(Call).rec.body \in There \cup {None}
<1>1. CASE Call.kind = "start"
  BY <1>1, EventFits
<1>2. CASE Call.kind = "persist"
  <2>1. Expected(Call) /\ EventOf(Call).rec.body = Call.next.body
    BY <1>2, EventFits DEF Admits
  <2> QED BY <1>2, <2>1, CallStored
<1> QED BY <1>1, <1>2

Refers(r) == r # Corrupt => References(r) \subseteq There

LEMMA TakesStored ==
  ASSUME Stored, NEW e, e.rec.body \in There \cup {None}, NEW r, Takes(Recovered, r, e)
  PROVE  Refers(r)
<1>1. Recovered # Corrupt => References(Recovered) \subseteq There
  BY DEF Stored
<1>2. e.seq = Recovered.next =>
        References(ApplyEvent(Recovered, e)) \subseteq References(Recovered) \cup ({e.rec.body} \ {None})
  BY ReferencesApplied
<1> QED BY <1>1, <1>2 DEF Takes, Refers

LEMMA RenewedStored ==
  ASSUME IInv, Stored, Up, NEW r, Renewed(r)
  PROVE  Refers(r)
<1>1. (Recovered # Corrupt => References(Recovered) \subseteq There)
      /\ References(mem) \subseteq There
  BY DEF Stored
<1>2. CASE r = Recovered
  BY <1>1, <1>2 DEF Refers
<1>3. CASE r \in {mem, Corrupt}
  BY <1>1, <1>3 DEF Refers
<1>4. CASE \E i \in DOMAIN ledger :
             ledger[i] # Torn /\ ledger[i].seq = mem.next /\ r = ApplyEvent(mem, ledger[i])
  <2>1. PICK i \in DOMAIN ledger : ledger[i].seq = mem.next /\ r = ApplyEvent(mem, ledger[i])
    BY <1>4
  <2>2. ledger[i].rec.body \in There \cup {None}
    <3>1. ledger[i] \in Strays
      BY <2>1, StrayLine
    <3> QED BY <3>1 DEF Stored
  <2>3. References(r) \subseteq References(mem) \cup ({ledger[i].rec.body} \ {None})
    BY <2>1, ReferencesApplied
  <2> QED BY <1>1, <2>2, <2>3 DEF Refers
<1> QED BY <1>2, <1>3, <1>4 DEF Renewed, Replayed

(* Steps that leave the bodies, their pins and the broker's state alone.    *)
LEMMA StoredSame ==
  ASSUME IInv, Stored, UNCHANGED <<mem, held, blobs, exposed>>,
         UNCHANGED pins \/ (pins' = {} /\ held = {}),
         \A i \in DOMAIN queue' : \E j \in DOMAIN queue : queue'[i] = queue[j],
         Refers(Recovered'), Up' => Up /\ \A x \in Strays' : x.rec.body \in There \cup {None}
  PROVE  Stored'
<1>1. /\ References(mem) \subseteq There /\ pins \subseteq blobs
      /\ \A w \in held : BodyOf[w] \in pins \cup exposed
      /\ \A i \in DOMAIN queue : Backed(queue[i], mem, held)
  BY DEF Stored
<1>2. There' = There
  BY DEF There
<1>3. Recovered' # Corrupt => References(Recovered') \subseteq There'
  BY <1>2 DEF Refers
<1>4. References(mem)' \subseteq There'
  BY <1>1, <1>2 DEF References, Holders
<1>5. pins' \subseteq blobs' /\ \A w \in held' : BodyOf[w] \in pins' \cup exposed'
  BY <1>1
<1>6. \A i \in DOMAIN queue' : Backed(queue'[i], mem', held')
  BY <1>1
<1>7. Up' => \A x \in Strays' : x.rec.body \in There' \cup {None}
  BY <1>2
<1> QED BY <1>3, <1>4, <1>5, <1>6, <1>7 DEF Stored

LEMMA AskStored ==
  ASSUME IInv, Stored, NEW c \in Calls, Backed(c, mem, held), Queues(c)
  PROVE  Stored'
<1>1. /\ queue' = Append(queue, c) /\ Up
      /\ UNCHANGED <<mem, pins, held, pc, stateFile, checkpoint, manifest, ledger, blobs, exposed>>
  BY DEF Queues, disk, ghost, Up
<1>2. queue \in Seq(Calls)
  BY DEF IInv, Shape
<1>3. \A i \in DOMAIN queue' : queue'[i] = c \/ \E j \in DOMAIN queue : queue'[i] = queue[j]
  BY <1>1, <1>2
<1>4. Recovered' = Recovered /\ Strays' = Strays /\ There' = There
  BY <1>1, RecoveredSame DEF Strays, There
<1>5. \A i \in DOMAIN queue' : Backed(queue'[i], mem', held')
  BY <1>1, <1>3 DEF Stored
<1>6. Up' => \A x \in Strays' : x.rec.body \in There' \cup {None}
  BY <1>1, <1>4 DEF Stored
<1> QED BY <1>1, <1>4, <1>5, <1>6 DEF Stored

LEMMA AsksStored ==
  ASSUME IInv, Stored, NEW w \in Workflow, AskStart(w) \/ AskPut(w) \/ AskPersist(w)
  PROVE  Stored'
<1>1. CASE AskStart(w)
  <2>1. StartCall(w) \in Calls /\ StartCall(w).kind = "start" /\ Queues(StartCall(w))
    BY <1>1, StartCallIs DEF AskStart, StartCall
  <2> QED BY <2>1, AskStored DEF Backed
<1>2. CASE AskPut(w)
  <2>1. PICK c \in Calls : c.kind = "put" /\ Queues(c)
    BY <1>2 DEF AskPut, Calls
  <2> QED BY <2>1, AskStored DEF Backed
<1>3. CASE AskPersist(w)
  <2>1. PICK next \in Steps(w, mem.wf[w], IF w \in held THEN {BodyOf[w]} ELSE {}) :
          Queues([kind |-> "persist", w |-> w, expected |-> mem.wf[w], next |-> next])
    BY <1>3 DEF AskPersist
  <2> DEFINE c == [kind |-> "persist", w |-> w, expected |-> mem.wf[w], next |-> next]
             got == IF w \in held THEN {BodyOf[w]} ELSE {}
  <2>2. mem.wf[w] \in Record
    BY <1>3 DEF AskPersist, IInv, Shape, StateOK
  <2>3. got \in SUBSET Digest
    BY DEF Digest
  <2> HIDE DEF got
  <2>4. next \in Record /\ next.body \in {mem.wf[w].body} \cup got
    BY <2>1, <2>2, <2>3, StepsAre DEF got
  <2>5. c \in Calls
    BY <2>2, <2>4 DEF Calls
  <2>6. c.next.body = c.expected.body \/ c.w \in held
    BY <2>4 DEF got
  <2>7. Backed(c, mem, held) /\ Queues(c)
    BY <2>1, <2>6 DEF Backed
  <2> HIDE DEF c
  <2> QED BY <2>5, <2>7, AskStored
<1> QED BY <1>1, <1>2, <1>3

LEMMA PutBlobStored ==
  ASSUME IInv, Stored, PutBlob
  PROVE  Stored'
<1>1. /\ queue # <<>> /\ Call.kind = "put" /\ queue' = Tail(queue) /\ Up
      /\ blobs' = blobs \cup {BodyOf[Call.w]} /\ pins' = pins \cup {BodyOf[Call.w]}
      /\ held' = held \cup {Call.w} /\ exposed' = exposed \ {BodyOf[Call.w]}
      /\ UNCHANGED <<mem, stateFile, checkpoint, manifest, ledger>>
  BY DEF PutBlob, Pin, Answered, Up
<1>2. \A i \in DOMAIN Tail(queue) : \E j \in DOMAIN queue : Tail(queue)[i] = queue[j]
  BY <1>1, TailQueue
<1>3. Recovered' = Recovered /\ Strays' = Strays
  BY <1>1, RecoveredSame DEF Strays
<1>4. There \subseteq There'
  BY <1>1 DEF There
<1>5. \A i \in DOMAIN queue' : Backed(queue'[i], mem', held')
  BY <1>1, <1>2 DEF Stored, Backed
<1>6. pins' \subseteq blobs' /\ \A w \in held' : BodyOf[w] \in pins' \cup exposed'
  BY <1>1 DEF Stored
<1>7. References(mem') \subseteq There' /\ (Recovered' # Corrupt => References(Recovered') \subseteq There')
  BY <1>1, <1>3, <1>4 DEF Stored
<1>8. Up' => \A x \in Strays' : x.rec.body \in There' \cup {None}
  BY <1>1, <1>3, <1>4 DEF Stored
<1> QED BY <1>5, <1>6, <1>7, <1>8 DEF Stored

(* What has been appended is unpinned; another runner's body that is the    *)
(* same becomes exposed.                                                    *)
LEMMA AppendStored ==
  ASSUME IInv, Stored, AppendEvent
  PROVE  Stored'
<1> DEFINE e == EventOf(Call)
<1>1. AppendIs(e)
  BY AppendEventIs
<1>2. e.rec.body \in There \cup {None}
  BY <1>1, EventStored DEF AppendIs
<1> HIDE DEF e
<1>3. Takes(Recovered, Recovered', e) /\ Strays' = {}
  BY <1>1, AppendedLines
<1>4. /\ mem' = ApplyEvent(mem, e) /\ pins' = pins \ {e.rec.body}
      /\ held' = IF e.rec.body # None \/ e.rec.status = "ended" THEN held \ {e.w} ELSE held
      /\ exposed' = exposed \cup Exposes(e) /\ UNCHANGED blobs
      /\ queue # <<>> /\ (queue' = queue \/ queue' = Tail(queue))
  BY <1>1 DEF AppendIs
<1>5. /\ e.seq = mem.next /\ e.w \in Workflow /\ e.rec.body \in {None, BodyOf[e.w]}
      /\ e.rec.at = mem.next
  BY <1>1 DEF AppendIs, Written, Event
<1>6. There \subseteq There'
  BY <1>4 DEF There
<1>7. Recovered' # Corrupt => References(Recovered') \subseteq There'
  BY <1>2, <1>3, <1>6, TakesStored DEF Refers
<1>8. References(mem') \subseteq There'
  BY <1>2, <1>4, <1>5, <1>6, ReferencesApplied DEF Stored
<1>9. pins' \subseteq blobs'
  BY <1>4 DEF Stored
<1>10. \A w \in held' : BodyOf[w] \in pins' \cup exposed'
  <2> SUFFICES ASSUME NEW w \in held' PROVE BodyOf[w] \in pins' \cup exposed'
    OBVIOUS
  <2>1. w \in held /\ w \in Workflow /\ BodyOf[w] \in pins \cup exposed
    BY <1>4 DEF IInv, Shape, Stored
  <2>2. CASE BodyOf[w] = e.rec.body
    <3>1. e.rec.body # None
      BY <2>1, <2>2, NoneAssumption DEF Digest
    <3>2. w # e.w
      BY <1>4, <3>1
    <3> QED BY <1>4, <2>1, <2>2, <3>2 DEF Exposes
  <2>3. CASE BodyOf[w] # e.rec.body
    BY <1>4, <2>1, <2>3
  <2> QED BY <2>2, <2>3
<1>11. \A i \in DOMAIN queue' : Backed(queue'[i], mem', held')
  <2> SUFFICES ASSUME NEW c \in Calls, Founded(c, mem), Backed(c, mem, held)
               PROVE  Backed(c, mem', held')
    <3>1. \A i \in DOMAIN queue' : \E j \in DOMAIN queue : queue'[i] = queue[j]
      BY <1>4, TailQueue
    <3>2. \A j \in DOMAIN queue :
            queue[j] \in Calls /\ Founded(queue[j], mem) /\ Backed(queue[j], mem, held)
      BY DEF IInv, Shape, Queued, Stored
    <3> QED BY <3>1, <3>2
  <2> SUFFICES ASSUME c.kind = "persist", c.w \in DOMAIN mem'.wf,
                      mem'.wf[c.w] = c.expected, c.next.body # None,
                      c.next.body # c.expected.body
               PROVE  c.w \in held'
    BY DEF Backed
  <2>1. /\ DOMAIN mem'.wf = DOMAIN mem.wf \cup {e.w} /\ mem'.wf[e.w] = e.rec
        /\ \A w \in DOMAIN mem.wf : w # e.w => mem'.wf[w] = mem.wf[w]
    <3> DEFINE t == ApplyEvent(mem, e)
    <3>1. e.seq = mem.next
      BY <1>5
    <3>2. /\ DOMAIN t.wf = DOMAIN mem.wf \cup {e.w} /\ t.wf[e.w] = e.rec
          /\ \A w \in DOMAIN mem.wf : w # e.w => t.wf[w] = mem.wf[w]
      BY <3>1, AppliedWorkflows
    <3>3. mem' = t
      BY <1>4
    <3> HIDE DEF t
    <3> QED BY <3>2, <3>3
  <2>2. c.w # e.w
    <3>1. c.expected.at < mem.next /\ mem.next \in Nat
      BY DEF Founded, IInv, Shape, StateOK
    <3> QED BY <1>5, <2>1, <3>1
  <2>3. c.w \in held
    BY <2>1, <2>2 DEF Backed
  <2> QED BY <1>4, <2>2, <2>3
<1>12. Up' => \A x \in Strays' : x.rec.body \in There' \cup {None}
  BY <1>3
<1> QED BY <1>7, <1>8, <1>9, <1>10, <1>11, <1>12 DEF Stored

(* The line of a failed write refers to a stored body too.                  *)
LEMMA AppendFailsStored ==
  ASSUME IInv, Stored, AppendFails
  PROVE  Stored'
<1> DEFINE e == EventOf(Call)
<1>1. /\ queue # <<>> /\ Call.kind \in {"start", "persist"} /\ Admits(Call)
      /\ queue' = Tail(queue) /\ pc' = "idle" /\ Up
      /\ ledger' \in Left(ledger, e)
      /\ UNCHANGED <<mem, pins, held, stateFile, checkpoint, manifest, blobs, exposed>>
  BY DEF AppendFails, Answered, Up
<1>2. LeftOf(e) /\ e.rec.body \in There \cup {None}
  BY <1>1, LeftOfCall, EventStored
<1> HIDE DEF e
<1>3. /\ Extends(ledger, ledger', e)
      /\ \/ Recovered' = Recovered
         \/ Takes(Recovered, Recovered', e)
         \/ Recovered' = Corrupt
  BY <1>2, LeftReadable
<1>4. Refers(Recovered')
  <2>1. Takes(Recovered, Recovered', e) => Refers(Recovered')
    BY <1>2, TakesStored
  <2> QED BY <1>3, <2>1 DEF Refers, Stored
<1>5. ASSUME NEW x \in Strays' PROVE x.rec.body \in There \cup {None}
  <2>1. PICK i \in DOMAIN ledger' : x = ledger'[i] /\ ledger'[i].seq = mem.next
    BY <1>1 DEF Strays
  <2>2. x # Torn
    BY <2>1, TornIs DEF IInv, Shape, StateOK
  <2>3. CASE x = e
    BY <1>2, <2>3
  <2>4. CASE i \in DOMAIN ledger /\ ledger'[i] = ledger[i]
    <3>1. x \in Strays
      BY <2>1, <2>4 DEF Strays
    <3> QED BY <1>1, <3>1 DEF Stored
  <2> QED BY <1>3, <2>1, <2>2, <2>3, <2>4 DEF Extends
<1>6. \A i \in DOMAIN queue' : \E j \in DOMAIN queue : queue'[i] = queue[j]
  BY <1>1, TailQueue
<1> QED BY <1>1, <1>4, <1>5, <1>6, StoredSame

(* Retention drops references, and changes no record a step may expect.     *)
LEMMA RetainStored ==
  ASSUME IInv, Stored, Retain
  PROVE  Stored'
<1>1. /\ UNCHANGED <<pins, held, queue, blobs, exposed>> /\ Up
  BY DEF Retain, disk, ghost, Up
<1>2. StateOK(mem) /\ Near(mem, mem') /\ Recovered' = Recovered /\ Strays' = Strays
  BY RetainKeeps DEF IInv, Shape
<1>3. There' = There
  BY <1>1 DEF There
<1>4. References(mem') \subseteq There'
  BY <1>2, <1>3, ReferencesNear DEF Stored
<1>5. \A i \in DOMAIN queue' : Backed(queue'[i], mem', held')
  <2> SUFFICES ASSUME NEW i \in DOMAIN queue PROVE Backed(queue[i], mem', held)
    BY <1>1
  <2> DEFINE c == queue[i]
  <2>1. c \in Calls /\ Founded(c, mem) /\ Backed(c, mem, held)
    BY DEF IInv, Shape, Queued, Stored
  <2> HIDE DEF c
  <2>2. SUFFICES ASSUME c.kind = "persist", c.w \in DOMAIN mem'.wf, mem'.wf[c.w] = c.expected
                 PROVE  c.w \in DOMAIN mem.wf /\ mem.wf[c.w] = c.expected
    BY <2>1 DEF Backed, c
  <2>3. c.expected.status # "ended" /\ c.w \in DOMAIN mem.wf /\ mem.wf[c.w] \in Record
    BY <1>2, <2>1, <2>2 DEF Founded, Near, StateOK
  <2>4. CASE c.w \in Unprotected(mem) /\ mem'.wf[c.w] = [mem.wf[c.w] EXCEPT !.body = None]
    <3>1. mem.wf[c.w].status = "ended"
      BY <1>2, <2>4, UnprotectedIs
    <3>2. mem'.wf[c.w].status = "ended"
      BY <2>3, <2>4, <3>1 DEF Record
    <3> QED BY <2>2, <2>3, <3>2
  <2> QED BY <1>2, <2>2, <2>3, <2>4 DEF Near, Kept
<1>6. Recovered' # Corrupt => References(Recovered') \subseteq There'
  BY <1>2, <1>3 DEF Stored
<1>7. Up' => \A x \in Strays' : x.rec.body \in There' \cup {None}
  BY <1>1, <1>2, <1>3 DEF Stored
<1> QED BY <1>1, <1>4, <1>5, <1>6, <1>7 DEF Stored

LEMMA ReconcileStored ==
  ASSUME IInv, Stored, ReconcileBlobs
  PROVE  Stored'
<1>1. /\ pc = "blobs" /\ blobs' = blobs \cap (References(mem) \cup pins)
      /\ UNCHANGED <<mem, pins, held, stateFile, checkpoint, manifest, ledger, exposed>>
  BY DEF ReconcileBlobs, WithoutUnreferenced, KeptBodies
<1>2. Recovered' = mem
  BY <1>1, AfterManifest, RecoveredSame
<1>3. References(mem) \subseteq There' /\ pins' \subseteq blobs'
  BY <1>1 DEF Stored, There
<1>4. \A i \in DOMAIN queue' : \E j \in DOMAIN queue : queue'[i] = queue[j]
  <2>1. CASE after = "answer"
    <3>1. queue # <<>> /\ queue' = Tail(queue)
      BY <1>1, <2>1 DEF ReconcileBlobs, Answered, IInv, Waits, Busy, Compacting
    <3> QED BY <3>1, TailQueue
  <2>2. CASE after # "answer"
    BY <2>2 DEF ReconcileBlobs
  <2> QED BY <2>1, <2>2
<1>5. \A i \in DOMAIN queue' : Backed(queue'[i], mem', held')
  BY <1>1, <1>4 DEF Stored
<1>6. Strays' = {}
  BY <1>1 DEF IInv, Stage, Strays
<1>7. \A w \in held' : BodyOf[w] \in pins' \cup exposed'
  BY <1>1 DEF Stored
<1>8. (Up => \A x \in Strays : x.rec.body \in There \cup {None})'
  BY <1>6
<1> QED BY <1>1, <1>2, <1>3, <1>5, <1>7, <1>8 DEF Stored

(* Without its broker the store is what its files say.                      *)
LEMMA DownStored ==
  ASSUME IInv, Stored, LoseMemory, UNCHANGED <<blobs, exposed>>, Refers(Recovered')
  PROVE  Stored'
<1>1. DOMAIN <<>> = {}
  OBVIOUS
<1>2. mem' = Empty /\ pins' = {} /\ held' = {} /\ queue' = <<>> /\ ~Up' /\ There' = There
  BY DEF LoseMemory, Up, There
<1> QED BY <1>1, <1>2, EmptyReferences DEF Stored, Refers

LEMMA CrashStored ==
  ASSUME IInv, Stored, Crash \/ StartFails
  PROVE  Stored'
<1>1. LoseMemory /\ UNCHANGED <<blobs, exposed>>
  BY DEF Crash, StartFails, disk
<1>2. Recovered' = Recovered \/ LeftOf(EventOf(Call))
  BY CrashKeeps, StartFailsKeeps DEF CrashLeft
<1>3. CASE Recovered' = Recovered
  BY <1>1, <1>3, DownStored DEF Stored, Refers
<1>4. CASE LeftOf(EventOf(Call))
  <2> DEFINE e == EventOf(Call)
  <2>1. LeftOf(e) /\ e.rec.body \in There \cup {None}
    BY <1>4, EventStored DEF LeftOf
  <2> HIDE DEF e
  <2>2. \/ Recovered' = Recovered
        \/ Takes(Recovered, Recovered', e)
        \/ Recovered' = Corrupt
    BY <2>1, LeftReadable
  <2>3. Takes(Recovered, Recovered', e) => Refers(Recovered')
    BY <2>1, TakesStored
  <2>4. Refers(Recovered')
    BY <2>2, <2>3 DEF Refers, Stored
  <2> QED BY <1>1, <2>4, DownStored
<1> QED BY <1>2, <1>3, <1>4

LEMMA InitializeStored ==
  ASSUME IInv, Stored, Initialize
  PROVE  Stored'
<1>1. /\ Recovered # Corrupt /\ mem' = Recovered /\ pins' = {} /\ held' = {} /\ queue' = <<>>
      /\ blobs' = blobs \cap References(Recovered) /\ UNCHANGED exposed
      /\ Recovered' = Recovered /\ Strays' = {}
  BY InitializeKeeps DEF Initialize, WithoutUnreferenced, ghost
<1>2. References(Recovered) \subseteq There'
  BY <1>1 DEF Stored, There
<1>3. DOMAIN <<>> = {}
  OBVIOUS
<1>4. (Up => \A x \in Strays : x.rec.body \in There \cup {None})'
  BY <1>1
<1> QED BY <1>1, <1>2, <1>3, <1>4 DEF Stored

LEMMA FilesStored ==
  ASSUME IInv, Stored,
         WriteState \/ WriteCheckpoint \/ WriteManifest \/ Opened \/ TruncateLedger
  PROVE  Stored'
<1>1. UNCHANGED <<mem, held, blobs, exposed, pins, queue>> /\ Up
  BY DEF WriteState, WriteCheckpoint, WriteManifest, Opened, TruncateLedger, ghost, Up
<1>2. Refers(Recovered') /\ Strays' \subseteq Strays
  <2>1. CASE WriteState \/ WriteCheckpoint \/ WriteManifest \/ Opened
    <3>1. Renewed(Recovered')
      BY <2>1, WriteStateKeeps, WriteCheckpointKeeps, WriteManifestKeeps, OpenedKeeps
    <3>2. UNCHANGED <<mem, ledger>>
      BY <2>1 DEF WriteState, WriteCheckpoint, WriteManifest, Opened
    <3> QED BY <1>1, <3>1, <3>2, RenewedStored DEF Strays
  <2>2. CASE TruncateLedger
    BY <2>2, TruncateKeeps DEF Refers, Stored
  <2> QED BY <2>1, <2>2
<1>3. \A x \in Strays' : x.rec.body \in There \cup {None}
  BY <1>1, <1>2 DEF Stored
<1> QED BY <1>1, <1>2, <1>3, StoredSame

LEMMA StepStored ==
  ASSUME IInv, Stored, [Next]_vars
  PROVE  Stored'
<1>1. CASE \E w \in Workflow : AskStart(w) \/ AskPut(w) \/ AskPersist(w)
  BY <1>1, AsksStored
<1>2. CASE PutBlob \/ AppendEvent \/ AppendFails
  BY <1>2, PutBlobStored, AppendStored, AppendFailsStored
<1>3. CASE Retain \/ ReconcileBlobs \/ Crash \/ StartFails \/ Initialize
  BY <1>3, RetainStored, ReconcileStored, CrashStored, InitializeStored
<1>4. CASE WriteState \/ WriteCheckpoint \/ WriteManifest \/ TruncateLedger \/ Opened
  BY <1>4, FilesStored
<1>5. CASE \/ UNCHANGED vars \/ PutCompacts \/ PutRefused \/ Refuse \/ MakeRoom \/ CompactFails
           \/ TimePasses
  <2>1. /\ UNCHANGED <<mem, held, blobs, exposed, stateFile, checkpoint, manifest, ledger>>
        /\ UNCHANGED pins \/ (pins' = {} /\ held = {})
        /\ Up' => Up
    BY <1>5 DEF vars, memory, disk, ghost, PutCompacts, PutRefused, Refuse, MakeRoom,
       CompactFails, TimePasses, Compacting, Up
  <2>2. \A i \in DOMAIN queue' : \E j \in DOMAIN queue : queue'[i] = queue[j]
    <3>1. \/ queue' = queue
          \/ (PutRefused \/ Refuse \/ CompactFails) /\ queue' = Tail(queue)
      BY <1>5 DEF vars, memory, PutCompacts, PutRefused, Refuse, MakeRoom, Answered,
         CompactFails, TimePasses
    <3>2. PutRefused \/ Refuse \/ CompactFails => queue # <<>>
      BY DEF IInv, Waits, Busy, PutRefused, Refuse, CompactFails
    <3> QED BY <3>1, <3>2, TailQueue
  <2>3. Recovered' = Recovered /\ Strays' = Strays
    BY <2>1, RecoveredSame DEF Strays
  <2>4. Refers(Recovered')
    BY <2>3 DEF Refers, Stored
  <2>5. Up' => Up /\ \A x \in Strays' : x.rec.body \in There \cup {None}
    BY <2>1, <2>3 DEF Stored
  <2> QED BY <2>1, <2>2, <2>4, <2>5, StoredSame
<1> QED BY <1>1, <1>2, <1>3, <1>4, <1>5 DEF Next

-----------------------------------------------------------------------------
(* The broker's state changes by an event, by retention, or is lost.        *)
Changed(e) ==
  /\ Fits(mem, e) /\ mem' = ApplyEvent(mem, e)
  /\ ~e.starts => e.rec.body \in {mem.wf[e.w].body, BodyOf[e.w]}

LEMMA StateSteps ==
  ASSUME IInv, [Next]_vars, Up
  PROVE  mem' = mem \/ Near(mem, mem') \/ mem' = Empty \/ \E e \in Event : Changed(e)
<1>1. CASE AppendEvent
  <2> DEFINE e == EventOf(Call)
  <2>1. /\ queue # <<>> /\ Call.kind \in {"start", "persist"} /\ Admits(Call)
        /\ mem' = ApplyEvent(mem, e)
    BY <1>1 DEF AppendEvent
  <2>2. Fits(mem, e) /\ e \in Event
    BY <2>1, EventFits DEF Fits, Written
  <2>3. ~e.starts => e.rec.body \in {mem.wf[e.w].body, BodyOf[e.w]}
    <3>1. Founded(Call, mem)
      BY <2>1, TailQueue
    <3> QED BY <2>1, <3>1, EventFits DEF Founded
  <2> HIDE DEF e
  <2> QED BY <2>1, <2>2, <2>3 DEF Changed
<1>2. CASE Retain
  <2>1. mem' = ApplyRetention(mem) /\ StateOK(mem)
    BY <1>2 DEF Retain, IInv, Shape
  <2> QED BY <2>1, RetentionNear
<1>3. CASE Crash \/ StartFails
  BY <1>3 DEF Crash, StartFails, LoseMemory
<1>4. CASE \E w \in Workflow : AskStart(w) \/ AskPut(w) \/ AskPersist(w)
  BY <1>4 DEF AskStart, AskPut, AskPersist, Queues
<1>5. CASE \/ UNCHANGED vars \/ PutBlob \/ PutCompacts \/ PutRefused \/ Refuse \/ MakeRoom
           \/ AppendFails \/ WriteState \/ WriteCheckpoint \/ WriteManifest \/ TruncateLedger
           \/ ReconcileBlobs \/ CompactFails \/ Opened \/ TimePasses
  BY <1>5 DEF vars, memory, PutBlob, Pin, PutCompacts, PutRefused, Refuse, MakeRoom,
     AppendFails, WriteState, WriteCheckpoint, WriteManifest, TruncateLedger,
     ReconcileBlobs, CompactFails, Opened, TimePasses
<1>6. CASE Initialize
  BY <1>6 DEF Initialize, Up
<1> QED BY <1>1, <1>2, <1>3, <1>4, <1>5, <1>6 DEF Next

(* A workflow that has ended, and one with a body, under one event.         *)
LEMMA EventSpares ==
  ASSUME NEW s, NEW e, NEW w, StateOK(s), Fits(s, e), w \in DOMAIN s.wf,
         ~e.starts => e.rec.body \in {s.wf[e.w].body, BodyOf[e.w]}
  PROVE  /\ w \in DOMAIN ApplyEvent(s, e).wf
         /\ s.wf[w].status = "ended" => ApplyEvent(s, e).wf[w] = s.wf[w]
         /\ s.wf[w].body # None => ApplyEvent(s, e).wf[w].body = s.wf[w].body
<1>1. /\ e.seq = s.next
      /\ e.starts => e.w \notin DOMAIN s.wf
      /\ ~e.starts => s.wf[e.w].status # "ended"
  BY DEF Fits
<1>2. s.wf[w].body \in {None, BodyOf[w]}
  BY DEF StateOK
<1> DEFINE t == ApplyEvent(s, e)
<1>3. /\ DOMAIN t.wf = DOMAIN s.wf \cup {e.w} /\ t.wf[e.w] = e.rec
      /\ \A v \in DOMAIN s.wf : v # e.w => t.wf[v] = s.wf[v]
  BY <1>1, AppliedWorkflows
<1> HIDE DEF t
<1>4. CASE w = e.w
  <2>1. ~e.starts
    BY <1>1, <1>4
  <2>2. /\ w \in DOMAIN t.wf /\ s.wf[w].status # "ended"
        /\ t.wf[w].body \in {s.wf[w].body, BodyOf[w]}
    BY <1>1, <1>3, <1>4, <2>1
  <2> QED BY <1>2, <2>2 DEF t
<1>5. CASE w # e.w
  <2>1. w \in DOMAIN t.wf /\ t.wf[w] = s.wf[w]
    BY <1>3, <1>5
  <2> QED BY <2>1 DEF t
<1> QED BY <1>4, <1>5

LEMMA EmptyHasNone == DOMAIN Empty.wf = {} /\ DOMAIN Empty.ops = {}
<1>1. Empty.wf = <<>> /\ Empty.ops = <<>> /\ DOMAIN <<>> = {}
  BY DEF Empty
<1> QED BY <1>1

LEMMA StepEnded ==
  ASSUME IInv, [Next]_vars
  PROVE  \A w \in DOMAIN mem.wf \cap DOMAIN mem'.wf :
           Up /\ mem.wf[w].status = "ended" => mem'.wf[w].status = mem.wf[w].status
<1> SUFFICES ASSUME NEW w \in DOMAIN mem.wf \cap DOMAIN mem'.wf, Up,
                    mem.wf[w].status = "ended"
             PROVE  mem'.wf[w].status = "ended"
  OBVIOUS
<1>1. StateOK(mem) /\ mem.wf[w] \in Record
  BY DEF IInv, Shape, StateOK
<1>2. CASE mem' = mem
  BY <1>2
<1>3. CASE Near(mem, mem')
  <2>1. mem'.wf[w] = mem.wf[w] \/ mem'.wf[w] = [mem.wf[w] EXCEPT !.body = None]
    BY <1>3 DEF Near, Kept
  <2>2. [mem.wf[w] EXCEPT !.body = None].status = mem.wf[w].status
    BY <1>1 DEF Record
  <2> QED BY <2>1, <2>2
<1>4. CASE mem' = Empty
  BY <1>4, EmptyHasNone
<1>5. CASE \E e \in Event : Changed(e)
  <2>1. mem'.wf[w] = mem.wf[w]
    BY <1>1, <1>5, EventSpares DEF Changed
  <2> QED BY <2>1
<1> QED BY <1>2, <1>3, <1>4, <1>5, StateSteps

LEMMA StepReview ==
  ASSUME IInv, [Next]_vars
  PROVE  \A w \in DOMAIN mem.wf \cap DOMAIN mem'.wf : LET c == ChildOf[w] IN
           /\ Up /\ AwaitsReview(mem.wf[w])
           /\ c \in DOMAIN mem.wf /\ mem.wf[c].body # None
           => c \in DOMAIN mem'.wf /\ mem'.wf[c].body = mem.wf[c].body
<1> SUFFICES ASSUME NEW w \in DOMAIN mem.wf \cap DOMAIN mem'.wf, NEW c, c = ChildOf[w],
                    Up, AwaitsReview(mem.wf[w]),
                    c \in DOMAIN mem.wf, mem.wf[c].body # None
             PROVE  c \in DOMAIN mem'.wf /\ mem'.wf[c].body = mem.wf[c].body
  OBVIOUS
<1>1. StateOK(mem)
  BY DEF IInv, Shape
<1>2. CASE mem' = mem
  BY <1>2
<1>3. CASE Near(mem, mem')
  <2>1. c \notin Unprotected(mem)
    BY <1>1, UnprotectedIs
  <2> QED BY <1>3, <2>1 DEF Near, Kept
<1>4. CASE mem' = Empty
  BY <1>4, EmptyHasNone
<1>5. CASE \E e \in Event : Changed(e)
  BY <1>1, <1>5, EventSpares DEF Changed
<1> QED BY <1>2, <1>3, <1>4, <1>5, StateSteps

LEMMA Typed == IInv => TypeOK
<1> SUFFICES ASSUME IInv PROVE TypeOK
  OBVIOUS
<1>1. Shape /\ StateOK(mem)
  BY DEF IInv, Shape
<1>2. \A i \in DOMAIN ledger : ledger[i] \in Event \cup {Torn}
  BY <1>1 DEF Shape, Line, Written
<1>3. /\ mem.next \in Nat /\ DOMAIN mem.wf \subseteq Workflow
      /\ \A w \in DOMAIN mem.wf : mem.wf[w] \in Record
  BY <1>1 DEF StateOK
<1> QED BY <1>1, <1>2, <1>3 DEF TypeOK, Shape

-----------------------------------------------------------------------------
(* The broker's state and what a start would find.                          *)
LEMMA ToldOnce ==
  ASSUME NEW pairs, pairs \subseteq Key \X Workflow, NEW s, Told(pairs, s)
  PROVE  \A p, q \in pairs : p[1] = q[1] => p = q
  BY DEF Told

LEMMA ToldNear ==
  ASSUME NEW r, NEW m, Near(r, m), NEW pairs
  PROVE  Told(pairs, r) <=> Told(pairs, m)
  BY DEF Near, Told

LEMMA ParentsNear ==
  ASSUME NEW r, NEW m, Near(r, m), NEW w
  PROVE  ParentsKnown(r, w) <=> ParentsKnown(m, w)
  BY DEF Near, ParentsKnown

LEMMA NamedEmpty == Named(Empty)
  BY EmptyHasNone DEF Named

(* Steps that change neither the state nor the files.                       *)
LEMMA SoundSame ==
  ASSUME Sound, UNCHANGED <<mem, admitted, fork>>, Recovered' = Recovered, Strays' = Strays,
         Up' <=> Up,
         \A i \in DOMAIN queue' :
           queue'[i].kind = "start" =>
             ParentsKnown(mem, queue'[i].w) \/ \E j \in DOMAIN queue : queue'[i] = queue[j]
  PROVE  Sound'
<1>1. \A i \in DOMAIN queue' : queue'[i].kind = "start" => ParentsKnown(mem', queue'[i].w)
  BY DEF Sound
<1>2. fork' = "no" => Found'
  BY DEF Sound, Found, Like
<1>3. Up' => \A x \in Strays' : x.starts => ParentsKnown(mem', x.w)
  BY DEF Sound
<1>4. /\ \A p, q \in admitted' : p[1] = q[1] => p = q
      /\ Named(mem') /\ (Up' => Told(admitted', mem')) /\ (~Up' => fork' = "no")
  BY DEF Sound
<1> QED BY <1>1, <1>2, <1>3, <1>4 DEF Sound

LEMMA AskSound ==
  ASSUME IInv, Sound, NEW w \in Workflow, AskStart(w) \/ AskPut(w) \/ AskPersist(w)
  PROVE  Sound'
<1>1. PICK c : Queues(c) /\ (c.kind = "start" => ParentsKnown(mem, c.w))
  <2>1. CASE AskStart(w)
    <3>1. Queues(StartCall(w)) /\ StartCall(w).w = w
      BY <2>1, StartCallIs DEF AskStart, StartCall
    <3>2. ParentsKnown(mem, w)
      BY <2>1 DEF AskStart, ParentsKnown, Sound, Named
    <3> QED BY <3>1, <3>2
  <2>2. CASE AskPut(w)
    BY <2>2 DEF AskPut
  <2>3. CASE AskPersist(w)
    BY <2>3 DEF AskPersist
  <2> QED BY <2>1, <2>2, <2>3
<1>2. /\ queue' = Append(queue, c)
      /\ UNCHANGED <<mem, pc, stateFile, checkpoint, manifest, ledger, admitted, fork>>
  BY <1>1 DEF Queues, disk, ghost
<1>3. queue \in Seq(Calls)
  BY DEF IInv, Shape
<1>4. \A i \in DOMAIN queue' : queue'[i] = c \/ \E j \in DOMAIN queue : queue'[i] = queue[j]
  BY <1>2, <1>3
<1>5. Recovered' = Recovered /\ Strays' = Strays /\ Up' = Up
  BY <1>2, RecoveredSame DEF Strays, Up
<1> QED BY <1>1, <1>2, <1>4, <1>5, SoundSame

(* An event of a failed write does not get in the way of the same event     *)
(* when it is written again.                                                *)
LEMMA AppendSound ==
  ASSUME IInv, IInv', Sound, AppendEvent
  PROVE  Sound'
<1> DEFINE e == EventOf(Call)
<1>1. AppendIs(e)
  BY AppendEventIs
<1> HIDE DEF e
<1>2. /\ mem' = ApplyEvent(mem, e) /\ Fits(mem, e) /\ queue # <<>> /\ Up
      /\ e.w = Call.w /\ e.starts = (Call.kind = "start") /\ e.seq = mem.next
      /\ mem'.next = mem.next + 1 /\ mem.next \in Nat
      /\ (queue' = queue \/ queue' = Tail(queue))
      /\ fork' = (IF fork = "no" /\ ~(Strays \subseteq {e}) THEN "open" ELSE fork)
  BY <1>1 DEF AppendIs
<1>3. Takes(Recovered, Recovered', e) /\ Strays' = {}
  BY <1>1, AppendedLines
<1>4. e.starts => ParentsKnown(mem, e.w)
  <2>1. 1 \in DOMAIN queue /\ Call = queue[1]
    BY <1>2, TailQueue
  <2> QED BY <1>2, <2>1 DEF Sound
<1>5. Named(mem')
  <2>1. Named(mem)
    BY DEF Sound
  <2>2. Named(ApplyEvent(mem, e))
    BY <1>2, <1>4, <2>1, NamedFits
  <2> QED BY <1>2, <2>2
<1>6. /\ DOMAIN mem.ops \subseteq DOMAIN mem'.ops
      /\ e.starts => KeyOf[e.w] \in DOMAIN mem'.ops /\ mem'.ops[KeyOf[e.w]] = e.w
  <2>1. /\ DOMAIN mem.ops \subseteq DOMAIN ApplyEvent(mem, e).ops
        /\ e.starts => KeyOf[e.w] \in DOMAIN ApplyEvent(mem, e).ops
                       /\ ApplyEvent(mem, e).ops[KeyOf[e.w]] = e.w
    BY <1>2, FitsOps, Zenon
  <2> QED BY <1>2, <2>1
<1>7. Told(admitted', mem')
  <2>1. Told(admitted, mem)
    BY <1>2 DEF Sound
  <2>2. Told(admitted, ApplyEvent(mem, e))
    BY <1>2, <2>1, ToldGrows
  <2>3. admitted' = admitted \/ admitted' = admitted \cup (IF e.starts THEN {<<KeyOf[e.w], e.w>>} ELSE {})
    BY <1>1 DEF AppendIs
  <2> QED BY <1>2, <1>6, <2>2, <2>3 DEF Told
<1>8. \A p, q \in admitted' : p[1] = q[1] => p = q
  <2>1. admitted' \subseteq Key \X Workflow
    BY DEF IInv, Shape
  <2> QED BY <1>7, <2>1, ToldOnce
<1>9. \A i \in DOMAIN queue' : queue'[i].kind = "start" => ParentsKnown(mem', queue'[i].w)
  <2>1. \A i \in DOMAIN queue' : \E j \in DOMAIN queue : queue'[i] = queue[j]
    BY <1>2, TailQueue
  <2> QED BY <1>6, <2>1 DEF Sound, ParentsKnown
<1>10. (Up => \A x \in Strays : x.starts => ParentsKnown(mem, x.w))'
  BY <1>3
<1>11. Up'
  BY <1>1 DEF AppendIs, Up
<1>12. ASSUME fork' = "no", Recovered' # Corrupt
       PROVE  Near(Recovered', mem') /\ Named(Recovered')
  <2>1. fork = "no" /\ Strays \subseteq {e} /\ Recovered # Corrupt
    <3>1. fork = "no" /\ Strays \subseteq {e}
      BY <1>2, <1>12
    <3> QED BY <1>3, <1>12, <3>1 DEF Takes
  <2>2. Named(Recovered) /\ (Near(Recovered, mem) \/ Near(Recovered, ApplyEvent(mem, e)))
    BY <1>2, <2>1 DEF Sound, Found, Like
  <2>3. StateOK(Recovered) /\ StateOK(mem) /\ Recovered.next \in Nat
    BY <2>1 DEF IInv, Shape, Readable, StateOK
  <2>4. CASE Near(Recovered, mem)
    <3>1. Recovered.next = mem.next
      BY <2>4 DEF Near
    <3>2. Recovered' = ApplyEvent(Recovered, e)
      BY <1>2, <1>3, <1>12, <2>3, <3>1 DEF Takes
    <3>3. Fits(Recovered, e) /\ Near(ApplyEvent(Recovered, e), ApplyEvent(mem, e))
      BY <1>2, <2>2, <2>3, <2>4, FitsBoth
    <3>4. e.starts => ParentsKnown(Recovered, e.w)
      BY <1>4, <2>4, ParentsNear
    <3>5. Named(ApplyEvent(Recovered, e))
      BY <2>2, <3>3, <3>4, NamedFits
    <3> QED BY <1>2, <3>2, <3>3, <3>5
  <2>5. CASE Near(Recovered, ApplyEvent(mem, e))
    <3>1. Recovered.next = mem.next + 1
      BY <1>2, <2>5 DEF Near
    <3>2. Recovered' = Recovered
      BY <1>2, <1>3, <1>12, <2>3, <3>1 DEF Takes
    <3> QED BY <1>2, <2>2, <2>5, <3>2
  <2> QED BY <2>2, <2>4, <2>5
<1>13. fork' = "no" => Found'
  <2>1. SUFFICES ASSUME fork' = "no", Recovered' # Corrupt
                 PROVE  Named(Recovered') /\ Told(admitted', Recovered') /\ Near(Recovered', mem')
    BY DEF Found, Like
  <2> QED BY <1>7, <1>12, <2>1, ToldNear
<1> QED BY <1>5, <1>7, <1>8, <1>9, <1>10, <1>11, <1>13 DEF Sound

(* Whatever a failed write leaves, a start finds the state before it or the *)
(* state after it.                                                          *)
LEMMA AddedLine ==
  ASSUME IInv, NEW e \in Line, Recovered # Corrupt, ledger' = AppendLine(ledger, e)
  PROVE  \E i \in DOMAIN ledger' : ledger'[i] = e
<1>1. ledger \in Seq(Line) /\ Len(ledger) \in Nat
  BY DEF IInv, Shape
<1>2. ~(ledger # <<>> /\ Last(ledger) = Torn)
  BY TornLast
<1>3. ledger' = Append(ledger, e)
  BY <1>2 DEF AppendLine
<1>4. Len(ledger) + 1 \in DOMAIN Append(ledger, e) /\ Append(ledger, e)[Len(ledger) + 1] = e
  BY <1>1
<1> QED BY <1>3, <1>4

After(r, e) ==
  /\ Named(r) /\ Told(admitted, r)
  /\ Near(r, mem) \/ (\E x \in Strays : Near(r, ApplyEvent(mem, x)))
       \/ (Near(r, ApplyEvent(mem, e)) /\ \E i \in DOMAIN ledger' : ledger'[i] = e)

LEMMA LeftFound ==
  ASSUME IInv, Sound, Up, fork = "no", NEW e, LeftOf(e), Recovered' # Corrupt
  PROVE  After(Recovered', e)
<1>1. /\ Fits(mem, e) /\ e \in Line /\ queue # <<>> /\ mem.next \in Nat /\ e.seq = mem.next
      /\ e.w = Call.w /\ e.starts = (Call.kind = "start")
  BY DEF LeftOf
<1>2. \/ Recovered' = Recovered
      \/ Takes(Recovered, Recovered', e) /\ ledger' = AppendLine(ledger, e)
  BY LeftReadable
<1>3. Recovered # Corrupt
  BY <1>2 DEF Takes
<1>4. /\ Named(Recovered) /\ Told(admitted, Recovered)
      /\ Near(Recovered, mem) \/ \E x \in Strays : Near(Recovered, ApplyEvent(mem, x))
  BY <1>3 DEF Sound, Found, Like
<1>5. StateOK(Recovered) /\ StateOK(mem)
  BY <1>3 DEF IInv, Shape, Readable
<1>6. CASE Recovered' = Recovered
  BY <1>4, <1>6 DEF After
<1>7. CASE /\ e.seq = Recovered.next /\ Recovered' = ApplyEvent(Recovered, e)
           /\ ledger' = AppendLine(ledger, e)
  <2>1. Near(Recovered, mem)
    <3>1. ASSUME NEW x \in Strays, Near(Recovered, ApplyEvent(mem, x)) PROVE FALSE
      <4>1. Fits(mem, x) /\ x.seq = mem.next
        BY DEF IInv, Numbered, Fits
      <4>2. Recovered.next = mem.next + 1
        BY <3>1, <4>1, AppliedOps DEF Near
      <4> QED BY <1>1, <1>7, <4>2
    <3> QED BY <1>4, <3>1
  <2>2. Fits(Recovered, e) /\ Near(ApplyEvent(Recovered, e), ApplyEvent(mem, e))
    BY <1>1, <1>4, <1>5, <2>1, FitsBoth
  <2>3. e.starts => ParentsKnown(Recovered, e.w)
    <3>1. 1 \in DOMAIN queue /\ Call = queue[1]
      BY <1>1, TailQueue
    <3>2. e.starts => ParentsKnown(mem, e.w)
      BY <1>1, <3>1 DEF Sound
    <3> QED BY <2>1, <3>2, ParentsNear
  <2>4. Named(ApplyEvent(Recovered, e)) /\ Told(admitted, ApplyEvent(Recovered, e))
    BY <1>4, <2>2, <2>3, NamedFits, ToldGrows
  <2>5. \E i \in DOMAIN ledger' : ledger'[i] = e
    BY <1>1, <1>3, <1>7, AddedLine
  <2> QED BY <1>7, <2>2, <2>4, <2>5 DEF After
<1> QED BY <1>2, <1>6, <1>7 DEF Takes

LEMMA AppendFailsSound ==
  ASSUME IInv, Sound, AppendFails
  PROVE  Sound'
<1> DEFINE e == EventOf(Call)
<1>1. /\ queue # <<>> /\ queue' = Tail(queue) /\ pc' = "idle" /\ Up /\ Up'
      /\ UNCHANGED <<mem, stateFile, checkpoint, manifest, blobs, admitted, fork>>
  BY DEF AppendFails, Answered, Up
<1>2. LeftOf(e)
  BY <1>1, LeftOfCall DEF AppendFails
<1> HIDE DEF e
<1>3. /\ e.w = Call.w /\ e.starts = (Call.kind = "start") /\ e.seq = mem.next
      /\ mem.next \in Nat \ {0}
  BY <1>2 DEF LeftOf
<1>4. Extends(ledger, ledger', e)
  BY <1>2, LeftReadable
<1>5. e.starts => ParentsKnown(mem, e.w)
  <2>1. 1 \in DOMAIN queue /\ Call = queue[1]
    BY <1>1, TailQueue
  <2> QED BY <1>3, <2>1 DEF Sound
<1>6. Strays \subseteq Strays' /\ (\A i \in DOMAIN ledger' : ledger'[i] = e => e \in Strays')
  BY <1>1, <1>3, <1>4 DEF Strays, Extends
<1>7. ASSUME NEW x \in Strays' PROVE x.starts => ParentsKnown(mem, x.w)
  <2>1. PICK i \in DOMAIN ledger' : x = ledger'[i] /\ ledger'[i].seq = mem.next
    BY <1>1 DEF Strays
  <2>2. x # Torn
    BY <1>3, <2>1, TornIs
  <2>3. CASE x = e
    BY <1>5, <2>3
  <2>4. CASE i \in DOMAIN ledger /\ ledger'[i] = ledger[i]
    <3>1. x \in Strays
      BY <2>1, <2>4 DEF Strays
    <3> QED BY <1>1, <3>1 DEF Sound
  <2> QED BY <1>4, <2>1, <2>2, <2>3, <2>4 DEF Extends
<1>8. fork' = "no" => Found'
  <2>1. SUFFICES ASSUME fork = "no", Recovered' # Corrupt
                 PROVE  Named(Recovered') /\ Told(admitted, Recovered') /\ Like(Recovered)'
    BY <1>1 DEF Found
  <2>2. After(Recovered', e)
    BY <1>1, <1>2, <2>1, LeftFound
  <2> QED BY <1>1, <1>6, <2>2 DEF After, Like
<1>9. \A i \in DOMAIN queue' : queue'[i].kind = "start" => ParentsKnown(mem', queue'[i].w)
  <2>1. \A i \in DOMAIN queue' : \E j \in DOMAIN queue : queue'[i] = queue[j]
    BY <1>1, TailQueue
  <2> QED BY <1>1, <2>1 DEF Sound
<1>10. Up' => \A x \in Strays' : x.starts => ParentsKnown(mem', x.w)
  BY <1>1, <1>7
<1> QED BY <1>1, <1>8, <1>9, <1>10 DEF Sound

LEMMA DownSound ==
  ASSUME Sound, LoseMemory, UNCHANGED admitted, fork' = "no",
         Recovered' # Corrupt => Named(Recovered') /\ Told(admitted, Recovered')
  PROVE  Sound'
<1>1. mem' = Empty /\ queue' = <<>> /\ ~Up' /\ DOMAIN <<>> = {}
  BY DEF LoseMemory, Up
<1>2. Named(mem')
  BY <1>1, NamedEmpty
<1>3. Found'
  BY <1>1 DEF Found
<1> QED BY <1>1, <1>2, <1>3 DEF Sound

LEMMA CrashSound ==
  ASSUME IInv, Safe, Crash \/ StartFails, fork' # "lost"
  PROVE  Sound'
<1>1. LoseMemory /\ UNCHANGED admitted /\ Up
  BY DEF Crash, StartFails, Up, Compacting
<1>2. fork = "no" /\ fork' = "no"
  BY <1>1 DEF LoseMemory, IInv, Shape
<1>3. Sound
  BY <1>2 DEF Safe
<1>4. Recovered' = Recovered \/ LeftOf(EventOf(Call))
  BY CrashKeeps, StartFailsKeeps DEF CrashLeft
<1>5. ASSUME Recovered' # Corrupt PROVE Named(Recovered') /\ Told(admitted, Recovered')
  <2>1. CASE Recovered' = Recovered
    BY <1>2, <1>3, <1>5, <2>1 DEF Sound, Found
  <2>2. CASE LeftOf(EventOf(Call))
    <3>1. After(Recovered', EventOf(Call))
      BY <1>1, <1>2, <1>3, <1>5, <2>2, LeftFound
    <3> QED BY <3>1 DEF After
  <2> QED BY <1>4, <2>1, <2>2
<1> QED BY <1>1, <1>2, <1>3, <1>5, DownSound

LEMMA RetainSound ==
  ASSUME IInv, IInv', Sound, Retain
  PROVE  Sound'
<1>1. UNCHANGED <<queue, admitted, fork>> /\ Up /\ Up'
  BY DEF Retain, disk, ghost, Up
<1>2. /\ Recovered' = Recovered /\ Strays' = Strays /\ Near(mem, mem')
      /\ StateOK(mem) /\ StateOK(mem')
  BY RetainKeeps DEF IInv, Shape
<1>3. Named(mem) /\ Told(admitted, mem)
  BY <1>1 DEF Sound
<1>4. Named(mem') /\ Told(admitted', mem')
  BY <1>1, <1>2, <1>3, NamedNear, ToldNear
<1>5. \A w : ParentsKnown(mem, w) => ParentsKnown(mem', w)
  BY <1>2, ParentsNear
<1>6. fork' = "no" => Found'
  <2>1. SUFFICES ASSUME fork = "no", Recovered # Corrupt
                 PROVE  Named(Recovered) /\ Told(admitted, Recovered) /\ Like(Recovered)'
    BY <1>1, <1>2 DEF Found
  <2>2. Named(Recovered) /\ Told(admitted, Recovered) /\ Like(Recovered)
    BY <1>1, <2>1 DEF Sound, Found
  <2>3. StateOK(Recovered)
    BY <2>1 DEF IInv, Readable
  <2>4. CASE Near(Recovered, mem)
    BY <1>2, <2>2, <2>3, <2>4, NearTrans DEF Like
  <2>5. CASE \E x \in Strays : Near(Recovered, ApplyEvent(mem, x))
    <3>1. PICK x \in Strays : Near(Recovered, ApplyEvent(mem, x))
      BY <2>5
    <3>2. Fits(mem, x) /\ Fits(mem', x)
      BY <1>1, <1>2 DEF IInv, Numbered
    <3>3. Near(ApplyEvent(mem, x), ApplyEvent(mem', x))
      BY <1>2, <1>3, <3>2, FitsBoth
    <3>4. StateOK(ApplyEvent(mem, x)) /\ StateOK(ApplyEvent(mem', x))
      BY <1>2, <3>2, WrittenKeeps DEF Fits
    <3>5. Near(Recovered, ApplyEvent(mem', x))
      BY <2>3, <3>1, <3>3, <3>4, NearTrans
    <3> QED BY <1>2, <2>2, <3>5 DEF Like
  <2> QED BY <2>2, <2>4, <2>5 DEF Like
<1> QED BY <1>1, <1>2, <1>4, <1>5, <1>6 DEF Sound

(* A file that is replaced by the broker's state.                           *)
LEMMA FilesSound ==
  ASSUME IInv, Sound, WriteState \/ WriteCheckpoint \/ WriteManifest \/ Opened
  PROVE  Sound'
<1>1. UNCHANGED <<mem, queue, ledger, admitted, fork>> /\ Up /\ Up'
  BY DEF WriteState, WriteCheckpoint, WriteManifest, Opened, ghost, Up
<1>2. Strays' = Strays
  BY <1>1 DEF Strays
<1>3. Renewed(Recovered')
  BY WriteStateKeeps, WriteCheckpointKeeps, WriteManifestKeeps, OpenedKeeps
<1>4. Named(mem) /\ Told(admitted, mem)
  BY <1>1 DEF Sound
<1>5. fork' = "no" => Found'
  <2>1. SUFFICES ASSUME fork = "no", Recovered' # Corrupt
                 PROVE  Named(Recovered') /\ Told(admitted, Recovered') /\ Like(Recovered')
    BY <1>1, <1>2 DEF Found, Like
  <2>2. CASE Recovered' = Recovered
    BY <1>1, <2>1, <2>2 DEF Sound, Found
  <2>3. CASE Recovered' = mem
    BY <1>4, <2>3, NearRefl DEF Like
  <2>4. CASE \E i \in DOMAIN ledger :
               ledger[i].seq = mem.next /\ Recovered' = ApplyEvent(mem, ledger[i])
    <3>1. PICK i \in DOMAIN ledger :
               ledger[i].seq = mem.next /\ Recovered' = ApplyEvent(mem, ledger[i])
      BY <2>4
    <3> DEFINE x == ledger[i]
    <3>2. x \in Strays /\ Recovered' = ApplyEvent(mem, x)
      BY <3>1, StrayLine
    <3> HIDE DEF x
    <3>3. Fits(mem, x) /\ (x.starts => ParentsKnown(mem, x.w))
      BY <1>1, <3>2 DEF IInv, Numbered, Sound
    <3>4. Named(ApplyEvent(mem, x)) /\ Told(admitted, ApplyEvent(mem, x))
      BY <1>4, <3>3, NamedFits, ToldGrows
    <3> QED BY <3>2, <3>4, NearRefl DEF Like
  <2> QED BY <1>3, <2>1, <2>2, <2>3, <2>4 DEF Renewed, Replayed
<1> QED BY <1>1, <1>2, <1>5 DEF Sound

LEMMA TruncateSound ==
  ASSUME IInv, Sound, TruncateLedger
  PROVE  Sound'
<1>1. UNCHANGED <<mem, queue, admitted>> /\ Up /\ Up'
  BY DEF TruncateLedger, Up
<1>2. Recovered' = mem /\ Strays' = {}
  BY TruncateKeeps
<1>3. Named(mem) /\ Told(admitted, mem)
  BY <1>1 DEF Sound
<1>4. Found'
  BY <1>1, <1>2, <1>3, NearRefl DEF Found, Like
<1>5. (\A x \in Strays : x.starts => ParentsKnown(mem, x.w))'
  BY <1>2
<1> QED BY <1>1, <1>4, <1>5 DEF Sound

LEMMA ReconcileSound ==
  ASSUME IInv, IInv', Sound, ReconcileBlobs
  PROVE  Sound'
<1>1. pc = "blobs" /\ UNCHANGED <<mem, stateFile, checkpoint, manifest, ledger, fork>>
  BY DEF ReconcileBlobs
<1>2. Recovered' = mem /\ Strays' = Strays
  BY <1>1, AfterManifest, RecoveredSame DEF Strays
<1>3. Up /\ Up'
  BY <1>1 DEF ReconcileBlobs, Up, IInv, Shape
<1>4. Named(mem) /\ Told(admitted, mem)
  BY <1>3 DEF Sound
<1>5. /\ Told(admitted', mem)
      /\ \A i \in DOMAIN queue' : \E j \in DOMAIN queue : queue'[i] = queue[j]
  <2>1. CASE after = "answer"
    <3>1. /\ queue # <<>> /\ queue' = Tail(queue)
          /\ admitted' = admitted \cup
               (IF Call.kind = "start" THEN {<<KeyOf[Call.w], Call.w>>} ELSE {})
      BY <1>1, <2>1 DEF ReconcileBlobs, Answered, IInv, Waits, Busy, Compacting
    <3>2. Call.kind = "start" =>
            KeyOf[Call.w] \in DOMAIN mem.ops /\ mem.ops[KeyOf[Call.w]] = Call.w
      BY <2>1 DEF IInv, Waits
    <3> QED BY <1>4, <3>1, <3>2, TailQueue DEF Told
  <2>2. CASE after # "answer"
    BY <1>4, <2>2 DEF ReconcileBlobs
  <2> QED BY <2>1, <2>2
<1>6. \A p, q \in admitted' : p[1] = q[1] => p = q
  <2>1. admitted' \subseteq Key \X Workflow
    BY DEF IInv, Shape
  <2> QED BY <1>5, <2>1, ToldOnce
<1>7. Found'
  BY <1>1, <1>2, <1>4, <1>5, NearRefl DEF Found, Like
<1>8. \A i \in DOMAIN queue' : queue'[i].kind = "start" => ParentsKnown(mem', queue'[i].w)
  BY <1>1, <1>5 DEF Sound
<1>9. \A x \in Strays' : x.starts => ParentsKnown(mem', x.w)
  BY <1>1, <1>2, <1>3 DEF Sound
<1> QED BY <1>1, <1>3, <1>4, <1>5, <1>6, <1>7, <1>8, <1>9 DEF Sound

LEMMA InitializeSound ==
  ASSUME IInv, Sound, Initialize
  PROVE  Sound'
<1>1. /\ ~Up /\ Recovered # Corrupt /\ queue' = <<>> /\ Up' /\ UNCHANGED <<admitted, fork>>
  BY DEF Initialize, Up, ghost
<1>2. Recovered' = Recovered /\ mem' = Recovered /\ Strays' = {}
  BY InitializeKeeps
<1>3. Named(Recovered) /\ Told(admitted, Recovered)
  BY <1>1 DEF Sound, Found
<1>4. DOMAIN <<>> = {}
  OBVIOUS
<1>5. Found'
  BY <1>1, <1>2, <1>3, NearRefl DEF Found, Like
<1>6. (\A x \in Strays : x.starts => ParentsKnown(mem, x.w))'
  BY <1>2
<1> QED BY <1>1, <1>2, <1>3, <1>4, <1>5, <1>6 DEF Sound

(* Every step, while no event was lost.                                     *)
LEMMA StepSound ==
  ASSUME IInv, IInv', Sound, [Next]_vars, fork # "lost", fork' # "lost"
  PROVE  Sound'
<1>1. CASE \E w \in Workflow : AskStart(w) \/ AskPut(w) \/ AskPersist(w)
  BY <1>1, AskSound
<1>2. CASE AppendEvent \/ AppendFails \/ Retain
  BY <1>2, AppendSound, AppendFailsSound, RetainSound
<1>3. CASE WriteState \/ WriteCheckpoint \/ WriteManifest \/ TruncateLedger \/ Opened
  BY <1>3, FilesSound, TruncateSound
<1>4. CASE ReconcileBlobs \/ Crash \/ StartFails \/ Initialize
  BY <1>4, ReconcileSound, CrashSound, InitializeSound DEF Safe
<1>5. CASE \/ UNCHANGED vars \/ PutBlob \/ PutCompacts \/ PutRefused \/ Refuse \/ MakeRoom
           \/ CompactFails \/ TimePasses
  <2>1. /\ UNCHANGED <<mem, stateFile, checkpoint, manifest, ledger, admitted, fork>>
        /\ Up' <=> Up
    BY <1>5 DEF vars, memory, disk, ghost, PutBlob, Pin, PutCompacts, PutRefused, Refuse,
       MakeRoom, CompactFails, TimePasses, Compacting, Up
  <2>2. \A i \in DOMAIN queue' : \E j \in DOMAIN queue : queue'[i] = queue[j]
    <3>1. \/ queue' = queue
          \/ (PutBlob \/ PutRefused \/ Refuse \/ CompactFails) /\ queue' = Tail(queue)
      BY <1>5 DEF vars, memory, PutBlob, Pin, PutCompacts, PutRefused, Refuse, MakeRoom,
         Answered, CompactFails, TimePasses
    <3>2. PutBlob \/ PutRefused \/ Refuse \/ CompactFails => queue # <<>>
      BY DEF IInv, Waits, Busy, PutBlob, PutRefused, Refuse, CompactFails
    <3> QED BY <3>1, <3>2, TailQueue
  <2>3. Recovered' = Recovered /\ Strays' = Strays
    BY <2>1, RecoveredSame DEF Strays
  <2> QED BY <2>1, <2>2, <2>3, SoundSame
<1> QED BY <1>1, <1>2, <1>3, <1>4, <1>5 DEF Next

(* What was lost stays lost.                                                *)
LEMMA LostForever ==
  ASSUME IInv, [Next]_vars, fork = "lost"
  PROVE  fork' = "lost"
<1>1. CASE \E w \in Workflow : AskStart(w) \/ AskPut(w) \/ AskPersist(w)
  BY <1>1 DEF AskStart, AskPut, AskPersist, Queues, ghost
<1>2. CASE AppendEvent \/ AppendFails \/ Retain \/ TruncateLedger
  BY <1>2 DEF AppendEvent, AppendFails, Retain, TruncateLedger, ghost
<1>3. CASE WriteState \/ WriteCheckpoint \/ WriteManifest \/ Opened \/ ReconcileBlobs
           \/ Crash \/ StartFails \/ Initialize
  BY <1>3 DEF WriteState, WriteCheckpoint, WriteManifest, Opened, ReconcileBlobs,
     Crash, StartFails, LoseMemory, Initialize, ghost
<1>4. CASE \/ UNCHANGED vars \/ PutBlob \/ PutCompacts \/ PutRefused \/ Refuse \/ MakeRoom
           \/ CompactFails \/ TimePasses
  BY <1>4 DEF vars, ghost, PutBlob, Pin, PutCompacts, PutRefused, Refuse, MakeRoom,
     CompactFails, TimePasses
<1> QED BY <1>1, <1>2, <1>3, <1>4 DEF Next

LEMMA StepSafe ==
  ASSUME IInv, IInv', Safe, [Next]_vars
  PROVE  Safe'
<1> SUFFICES ASSUME fork' # "lost" PROVE Sound'
  BY DEF Safe
<1>1. fork # "lost"
  BY LostForever
<1> QED BY <1>1, StepSound DEF Safe

LEMMA InitSafe ==
  ASSUME Init
  PROVE  Stored /\ Safe
<1>1. Recovered = Empty /\ mem = Empty /\ ~Up /\ DOMAIN <<>> = {} /\ queue = <<>>
  BY InitIInv DEF Init, Up
<1>2. Stored
  BY <1>1, EmptyReferences DEF Init, Stored
<1>3. Sound
  BY <1>1, NamedEmpty DEF Init, Sound, Found, Told
<1> QED BY <1>2, <1>3 DEF Safe

-----------------------------------------------------------------------------
(* The properties the runs check, from the inductive invariants.            *)
LEMMA Agrees == IInv /\ Safe => RestartAgrees
<1> SUFFICES ASSUME IInv, Safe PROVE RestartAgrees
  OBVIOUS
<1>1. TypeOK
  BY Typed
<1>2. ASSUME Up, fork = "no"
      PROVE  \/ Recovered = Corrupt \/ Near(Recovered, mem)
             \/ \E e \in Strays : Near(Recovered, ApplyEvent(mem, e))
  BY <1>2 DEF Safe, Sound, Found, Like
<1>3. \A r, m : Near(r, m) => Agree(r, m)
  BY DEF Near, Kept, Agree
<1>4. pc # "down" /\ fork = "no" =>
        \/ Recovered = Corrupt \/ Agree(Recovered, mem)
        \/ \E e \in Strays : Agree(Recovered, ApplyEvent(mem, e))
  BY <1>2, <1>3 DEF Up
<1> QED BY <1>1, <1>4 DEF RestartAgrees

LEMMA Bodies == IInv /\ Stored => BodiesKept
  BY CallStored DEF Stored, BodiesKept, There

LEMMA Identities == Safe => IdentityOnce
  BY DEF Safe, Sound, Found, Named, Told, IdentityOnce

SInv == IInv /\ Safe
LEMMA SafeAlways == Spec => []SInv
<1>1. Init => SInv
  BY InitIInv, InitSafe DEF SInv
<1>2. SInv /\ [Next]_vars => SInv'
  BY StepKeeps, StepSafe DEF SInv
<1> QED BY <1>1, <1>2, PTL DEF Spec

(* Whatever a crash or a failure leaves of a line: what a start finds is    *)
(* what the broker knew, or that and the event of a failed write, at every  *)
(* step of every call and of every compaction, until two events have been   *)
(* written under one number (#appendEvent, #compact, #initialize).          *)
THEOREM RestartAgreesHolds == Spec => []RestartAgrees
<1>1. SInv => RestartAgrees
  BY Agrees DEF SInv
<1> QED BY <1>1, SafeAlways, PTL

(* An operation key has one workflow, through any number of crashes, failed *)
(* writes and compactions, until a restart on two events of one number      *)
(* (persistStarted).                                                        *)
THEOREM IdentityOnceHolds == Spec => []IdentityOnce
<1>1. SInv => IdentityOnce
  BY Identities DEF SInv
<1> QED BY <1>1, SafeAlways, PTL

(* A body that a start or a waiting call refers to is never removed, unless *)
(* another runner's event has unpinned the same body (putBlob,              *)
(* #mergePendingBlobReferences, #removeUnreferencedBlobInventory).          *)
BInv == IInv /\ Stored
THEOREM BodiesKeptHolds == Spec => []BodiesKept
<1>1. Init => BInv
  BY InitIInv, InitSafe DEF BInv
<1>2. BInv /\ [Next]_vars => BInv'
  BY StepKeeps, StepStored DEF BInv
<1>3. BInv => BodiesKept
  BY Bodies DEF BInv
<1> QED BY <1>1, <1>2, <1>3, PTL DEF Spec

(* What has ended is written over by no call, however stale                 *)
(* (#persistEntity).                                                        *)
THEOREM EndedStaysEndedHolds == Spec => EndedStaysEnded
<1>1. Init => IInv
  BY InitIInv
<1>2. IInv /\ [Next]_vars => IInv'
  BY StepKeeps
<1>3. IInv /\ [Next]_vars =>
        [\A w \in DOMAIN mem.wf \cap DOMAIN mem'.wf :
           Up /\ mem.wf[w].status = "ended" => mem'.wf[w].status = mem.wf[w].status]_vars
  BY StepEnded
<1> QED BY <1>1, <1>2, <1>3, PTL DEF Spec, EndedStaysEnded

(* Retention leaves the review that a convergence awaits while it runs or   *)
(* is handed over (#unprotectedWorkflows, the continuation dependencies).   *)
THEOREM ReviewKeptHolds == Spec => ReviewKept
<1>1. Init => IInv
  BY InitIInv
<1>2. IInv /\ [Next]_vars => IInv'
  BY StepKeeps
<1>3. IInv /\ [Next]_vars =>
        [\A w \in DOMAIN mem.wf \cap DOMAIN mem'.wf : LET c == ChildOf[w] IN
           /\ Up /\ AwaitsReview(mem.wf[w])
           /\ c \in DOMAIN mem.wf /\ mem.wf[c].body # None
           => c \in DOMAIN mem'.wf /\ mem'.wf[c].body = mem.wf[c].body]_vars
  BY StepReview
<1> QED BY <1>1, <1>2, <1>3, PTL DEF Spec, ReviewKept
=============================================================================
