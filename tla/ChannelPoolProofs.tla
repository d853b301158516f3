--------------------------- MODULE ChannelPoolProofs ---------------------------
(***************************************************************************)
(* Proofs about the channel pool and the emissions that publish through    *)
(* it, for any number of publishers, events, retries and outages and any   *)
(* size of the pool.                                                       *)
(***************************************************************************)
EXTENDS ChannelPool, FiniteSetTheorems, SequenceTheorems, TLAPS

USE PoolAssumption

Elems(s) == {s[i] : i \in DOMAIN s}
Once(s)  == \A i, j \in DOMAIN s : s[i] = s[j] => i = j

\* Every channel is the number it was created as, in the pool once, and not yet in
\* it while it is being opened; a call that has a channel to give back holds one.
ChannelsSound ==
  /\ Once(pool) /\ \A c \in InPool : c <= made
  /\ \A p \in Publishers : Busy(p) =>
       /\ Once(job[p].held)
       /\ \A c \in Held(p) : c <= made
       /\ job[p].pc # "connect" => job[p].held # <<>>
  /\ \A p \in Opening : job[p].new <= made /\ job[p].new \notin InPool
  /\ closing.phase = "done" => pool = <<>>

\* An event is emitted once, so one publisher runs it.
OneRun ==
  \A p \in Publishers : Busy(p) =>
    /\ sent[job[p].emission].result = "running"
    /\ \A q \in Publishers \ {p} : Busy(q) => job[q].emission # job[p].emission

\* Every copy is paid for by a try or by an outage, and the try that is about to
\* be made is not yet spent; what has been confirmed is in its queue.
CopiesCounted ==
  /\ \A p \in Publishers : Busy(p) =>
       LET e == job[p].emission IN
         /\ job[p].left <= MaxRetries[e]
         /\ job[p].pc \in {"connect", "publish", "sleep"} =>
              sent[e].copies + job[p].left <= MaxRetries[e] + broker.outages
         /\ sent[e].copies + job[p].left <= 1 + MaxRetries[e] + broker.outages
         /\ job[p].pc \in {"confirm", "published"} /\ HasQueue(e) => sent[e].copies > 0
  /\ \A e \in Emissions : sent[e].result = "unsent" => sent[e].copies = 0

\* LendingBook, member by member.
Book ==
  closing.phase # "done" =>
    /\ \A c \in inUse : c \in InPool /\ \E p \in Publishers : c \in Held(p)
    /\ \A p \in Publishers : Held(p) \subseteq inUse

Channels == ChannelsSound /\ ExclusiveLending /\ Book

\* What is counted is finite; the pool's length is the number of its channels.
Demand ==
  /\ IsFiniteSet(inUse) /\ IsFiniteSet(InPool)
  /\ Len(pool) = Cardinality(InPool)
  /\ PoolFollowsDemand

Deliveries == OneRun /\ CopiesCounted /\ DeliverySound

PoolInv == PoolTypeOK /\ Channels /\ Demand /\ Deliveries

-----------------------------------------------------------------------------
(***************************************************************************)
(* Stacks of channels, and the fields of a job                             *)
(***************************************************************************)
LEMMA AppendElems ==
  ASSUME NEW s \in Seq(Nat), NEW c \in Nat
  PROVE  /\ Append(s, c) \in Seq(Nat) /\ Append(s, c) # <<>>
         /\ Elems(Append(s, c)) = Elems(s) \cup {c}
         /\ Once(s) /\ c \notin Elems(s) => Once(Append(s, c))
<1> DEFINE t == Append(s, c)
<1>1. /\ t \in Seq(Nat) /\ t # <<>> /\ Len(t) = Len(s) + 1
      /\ \A i \in 1..Len(s) : t[i] = s[i]
      /\ t[Len(s) + 1] = c
  BY AppendProperties
<1>. HIDE DEF t
<1>2. /\ DOMAIN s = 1..Len(s) /\ Len(s) \in Nat
      /\ DOMAIN t = 1..Len(s) + 1
  BY <1>1, LenProperties
<1>3. Elems(t) = Elems(s) \cup {c}
  <2>1. \A i \in DOMAIN t : t[i] \in Elems(s) \cup {c}
    BY <1>1, <1>2 DEF Elems
  <2>2. \A i \in DOMAIN s : s[i] \in Elems(t)
    BY <1>1, <1>2 DEF Elems
  <2>3. c \in Elems(t)
    BY <1>1, <1>2 DEF Elems
  <2>. QED
    BY <2>1, <2>2, <2>3 DEF Elems
<1>4. Once(s) /\ c \notin Elems(s) => Once(t)
  <2> SUFFICES ASSUME Once(s), c \notin Elems(s), NEW i \in DOMAIN t, NEW j \in DOMAIN t,
                      t[i] = t[j]
               PROVE  i = j
    BY DEF Once
  <2>1. \A k \in 1..Len(s) : t[k] # c
    BY <1>1, <1>2 DEF Elems
  <2>2. CASE i \in 1..Len(s) /\ j \in 1..Len(s)
    BY <1>1, <1>2, <2>2 DEF Once
  <2>3. CASE ~(i \in 1..Len(s) /\ j \in 1..Len(s))
    BY <1>1, <1>2, <2>1, <2>3
  <2>. QED
    BY <2>2, <2>3
<1>. QED
  BY <1>1, <1>3, <1>4 DEF t

LEMMA BelowElems ==
  ASSUME NEW s \in Seq(Nat), Len(s) > 1, Once(s)
  PROVE  /\ Below(s) \in Seq(Nat) /\ Below(s) # <<>>
         /\ Elems(Below(s)) = Elems(s) \ {Top(s)}
         /\ Once(Below(s))
<1>1. PICK n \in Nat : n = Len(s) - 1 /\ n > 0 /\ DOMAIN s = 1..n + 1
  BY LenProperties
<1> DEFINE t == Below(s)
<1>2. t \in Seq(Nat) /\ DOMAIN t = 1..n /\ \A i \in 1..n : t[i] = s[i]
  <2>1. \A i \in 1..n : s[i] \in Nat
    BY <1>1, ElementOfSeq
  <2>2. Below(s) = SubSeq(s, 1, n)
    BY <1>1 DEF Below
  <2>3. /\ t \in Seq(Nat) /\ Len(t) = n
        /\ \A i \in 1..n : t[i] = s[i]
    BY <1>1, <2>1, <2>2, SubSeqProperties
  <2>. QED
    BY <2>3, LenProperties
<1>. HIDE DEF t
<1>3. Top(s) = s[n + 1]
  BY <1>1 DEF Top
<1>4. \A i \in 1..n : s[i] # s[n + 1]
  <2>1. \A i \in 1..n : i \in DOMAIN s /\ n + 1 \in DOMAIN s /\ i # n + 1
    BY <1>1
  <2>. QED
    BY <2>1 DEF Once
<1>5. Once(t) /\ t # <<>>
  <2>1. \A i \in DOMAIN t : i \in DOMAIN s /\ t[i] = s[i]
    BY <1>1, <1>2
  <2>2. 1 \in DOMAIN t
    BY <1>1, <1>2
  <2>. QED
    BY <2>1, <2>2 DEF Once
<1>6. Elems(t) = Elems(s) \ {Top(s)}
  <2>1. \A i \in DOMAIN t : t[i] \in Elems(s) \ {Top(s)}
    <3>1. \A i \in DOMAIN t : i \in DOMAIN s /\ t[i] = s[i] /\ t[i] # Top(s)
      BY <1>1, <1>2, <1>3, <1>4
    <3>. QED
      BY <3>1 DEF Elems
  <2>2. ASSUME NEW i \in DOMAIN s, s[i] # Top(s)
        PROVE  s[i] \in Elems(t)
    <3>1. i \in 1..n
      BY <1>1, <1>3, <2>2
    <3>. QED
      BY <1>2, <3>1 DEF Elems
  <2>. QED
    BY <2>1, <2>2 DEF Elems
<1>. QED
  BY <1>2, <1>5, <1>6 DEF t

LEMMA SingleElems ==
  ASSUME NEW s \in Seq(Nat), s # <<>>, ~(Len(s) > 1)
  PROVE  Elems(s) = {Top(s)}
<1>1. Len(s) \in Nat /\ Len(s) # 0 /\ DOMAIN s = 1..Len(s)
  OBVIOUS
<1>2. Len(s) = 1
  BY <1>1
<1>. QED
  BY <1>1, <1>2 DEF Elems, Top

LEMMA JobFields ==
  ASSUME PoolTypeOK, NEW p \in Publishers
  PROVE  /\ job[p].pc \in {"idle", "connect", "publish", "confirm", "sleep",
                           "published", "failed"}
         /\ ~Busy(p) => job[p] = Idling
         /\ Busy(p) => /\ job[p].emission \in Emissions /\ job[p].left \in Nat
                       /\ job[p].held \in Seq(Nat)
                       /\ Held(p) = Elems(job[p].held)
         /\ p \in Opening => job[p].new \in Nat /\ Busy(p)
         /\ ~Busy(p) => Held(p) = {}
<1>1. job[p] \in Job
  BY DEF PoolTypeOK
<1>. QED
  BY <1>1 DEF Job, Busy, Idling, Held, Elems, Opening

\* The record of a job that holds channels and waits for none.
Running(pc, e, n, held) == [pc |-> pc, emission |-> e, left |-> n, held |-> held]

LEMMA RunningIsJob ==
  ASSUME NEW pc \in {"publish", "confirm", "sleep", "published", "failed"},
         NEW e \in Emissions, NEW n \in Nat, NEW held \in Seq(Nat)
  PROVE  /\ Running(pc, e, n, held) \in Job
         /\ Running(pc, e, n, held).pc = pc
         /\ Running(pc, e, n, held).emission = e
         /\ Running(pc, e, n, held).left = n
         /\ Running(pc, e, n, held).held = held
  BY DEF Running, Job

LEMMA RunningFields ==
  ASSUME PoolTypeOK, NEW p \in Publishers, Busy(p), job[p].pc # "connect"
  PROVE  job[p] = Running(job[p].pc, job[p].emission, job[p].left, job[p].held)
<1>1. job[p] \in Job
  BY DEF PoolTypeOK
<1>. QED
  BY <1>1 DEF Job, Busy, Running

\* Publisher p is left with job j, the others with theirs.
Turns(p, j) ==
  /\ job' \in [Publishers -> Job]
  /\ job'[p] = j
  /\ \A q \in Publishers \ {p} : job'[q] = job[q]

LEMMA TurnsBy ==
  ASSUME PoolTypeOK, NEW p \in Publishers, NEW j \in Job, job' = [job EXCEPT ![p] = j]
  PROVE  Turns(p, j)
  BY DEF Turns, PoolTypeOK

-----------------------------------------------------------------------------
(***************************************************************************)
(* Who holds which channel                                                 *)
(***************************************************************************)
\* Steps that lend no channel, take none back and open none.
LEMMA QuietChannels ==
  ASSUME PoolTypeOK, Channels, UNCHANGED <<pool, inUse, made>>,
         closing'.phase = "done" <=> closing.phase = "done",
         \A q \in Publishers :
           \/ job'[q] = job[q]
           \/ /\ job[q].pc \notin {"idle", "connect"} /\ job'[q].pc \notin {"idle", "connect"}
              /\ job'[q].held = job[q].held
  PROVE  Channels'
<1>1. \A q \in Publishers :
        /\ Held(q)' = Held(q) /\ (Busy(q)' <=> Busy(q)) /\ (q \in Opening' <=> q \in Opening)
        /\ Busy(q) => job'[q].held = job[q].held
        /\ job'[q].pc # "connect" <=> job[q].pc # "connect"
        /\ q \in Opening => job'[q] = job[q]
  BY DEF Held, Busy, Opening
<1>2. ChannelsSound'
  BY <1>1 DEF Channels, ChannelsSound, InPool, Opening
<1>3. ExclusiveLending'
  BY <1>1 DEF Channels, ExclusiveLending, Opening
<1>4. Book'
  BY <1>1 DEF Channels, Book, InPool
<1>. QED
  BY <1>2, <1>3, <1>4 DEF Channels

\* Publisher p, which waits for no channel, is lent the free channel c.
LEMMA LendChannels ==
  ASSUME PoolTypeOK, Channels, NEW p \in Publishers, p \notin Opening,
         NEW c \in Nat, c \in InPool, c \notin inUse, inUse' = inUse \cup {c},
         UNCHANGED <<pool, made, closing>>,
         NEW e \in Emissions, NEW n \in Nat, NEW h \in Seq(Nat),
         Elems(h) = Held(p), Once(h),
         Turns(p, Running("publish", e, n, Append(h, c)))
  PROVE  Channels'
<1> DEFINE k == Append(h, c)
<1>1. closing.phase # "done"
  BY DEF InPool, Channels, ChannelsSound
<1>2. \A q \in Publishers : c \notin Held(q)
  BY <1>1 DEF Channels, Book
<1>3. /\ k \in Seq(Nat) /\ k # <<>> /\ Elems(k) = Held(p) \cup {c} /\ Once(k)
  BY <1>2, AppendElems
<1>. HIDE DEF k
<1>4. /\ job'[p].pc = "publish" /\ job'[p].held = k
      /\ \A q \in Publishers \ {p} : job'[q] = job[q]
  BY DEF Turns, Running, k
<1>5. /\ Busy(p)' /\ Held(p)' = Held(p) \cup {c} /\ Opening' = Opening
      /\ \A q \in Publishers \ {p} : Held(q)' = Held(q) /\ (Busy(q)' <=> Busy(q))
  <2>1. Busy(p)' /\ Opening' = Opening
    BY <1>4 DEF Busy, Opening
  <2>2. Held(p)' = Elems(k)
    BY <1>4, <2>1 DEF Held, Elems
  <2>. QED
    BY <1>3, <1>4, <2>1, <2>2 DEF Held, Busy
<1>6. c <= made /\ \A x \in Held(p) : x <= made
  <2>1. ~Busy(p) => Held(p) = {}
    BY DEF Held
  <2>. QED
    BY <2>1 DEF Channels, ChannelsSound
<1>7. ChannelsSound'
  <2>1. Once(pool)' /\ (\A x \in InPool' : x <= made')
    BY DEF Channels, ChannelsSound, InPool
  <2>2. ASSUME NEW q \in Publishers, Busy(q)'
        PROVE  /\ Once(job'[q].held) /\ (\A x \in Held(q)' : x <= made')
               /\ job'[q].pc # "connect" => job'[q].held # <<>>
    BY <1>3, <1>4, <1>5, <1>6, <2>2 DEF Channels, ChannelsSound
  <2>3. \A q \in Opening' : job'[q].new <= made' /\ job'[q].new \notin InPool'
    BY <1>4, <1>5 DEF Channels, ChannelsSound, InPool, Opening
  <2>. QED
    BY <1>1, <2>1, <2>2, <2>3 DEF ChannelsSound, Once
<1>8. ExclusiveLending'
  <2>1. \A q \in Publishers : Busy(q)' => Once(job'[q].held)
    BY <1>3, <1>4, <1>5 DEF Channels, ChannelsSound
  <2>2. \A q, r \in Publishers : q # r => Held(q)' \cap Held(r)' = {}
    BY <1>2, <1>5 DEF Channels, ExclusiveLending
  <2>3. \A q \in Opening : \A r \in Publishers :
          /\ job'[q].new \notin Held(r)'
          /\ r \in Opening /\ q # r => job'[q].new # job'[r].new
    <3>1. \A q \in Opening : job'[q] = job[q] /\ job[q].new # c
      BY <1>4 DEF Channels, ChannelsSound, Opening
    <3>. QED
      BY <1>5, <3>1 DEF Channels, ExclusiveLending
  <2>. QED
    BY <1>5, <2>1, <2>2, <2>3 DEF ExclusiveLending, Once
<1>9. Book'
  BY <1>1, <1>5 DEF Channels, Book, InPool
<1>. QED
  BY <1>7, <1>8, <1>9 DEF Channels

\* Publisher p waits for the channel it has just had created.
LEMMA OpenChannels ==
  ASSUME PoolTypeOK, Channels, NEW p \in Publishers, p \notin Opening,
         made' = made + 1, UNCHANGED <<pool, inUse, closing>>, NEW j \in Job,
         j.pc = "connect", j.new = made + 1, j.held \in Seq(Nat),
         Elems(j.held) = Held(p), Once(j.held), Turns(p, j)
  PROVE  Channels'
<1>1. /\ Busy(p)' /\ Held(p)' = Held(p) /\ Opening' = Opening \cup {p}
      /\ \A q \in Publishers \ {p} : Held(q)' = Held(q) /\ (Busy(q)' <=> Busy(q))
      /\ job'[p] = j /\ \A q \in Publishers \ {p} : job'[q] = job[q]
  BY DEF Turns, Held, Busy, Opening, Elems
<1>2. \A q \in Publishers : \A x \in Held(q) : x <= made
  BY DEF Channels, ChannelsSound, Held
<1>3. /\ \A q \in Publishers : \A x \in Held(q) : x \in Nat
      /\ \A x \in InPool : x \in Nat /\ x <= made
      /\ \A q \in Opening : job[q].new \in Nat /\ job[q].new <= made
      /\ made \in Nat
  <2>1. ASSUME NEW q \in Publishers PROVE \A x \in Held(q) : x \in Nat
    BY JobFields, LenProperties DEF Elems
  <2>2. \A x \in InPool : x \in Nat
    BY DEF PoolTypeOK, InPool
  <2>. QED
    BY <2>1, <2>2, JobFields DEF Channels, ChannelsSound, Opening, PoolTypeOK
<1>4. ChannelsSound'
  <2> InPool' = InPool
    BY DEF InPool
  <2>1. Once(pool)' /\ (\A x \in InPool' : x <= made')
    <3>1. Once(pool)'
      BY DEF Channels, ChannelsSound, Once
    <3>2. \A x \in InPool : x <= made + 1
      BY <1>3
    <3>. QED
      BY <3>1, <3>2
  <2>2. ASSUME NEW q \in Publishers, Busy(q)'
        PROVE  /\ Once(job'[q].held) /\ (\A x \in Held(q)' : x <= made')
               /\ job'[q].pc # "connect" => job'[q].held # <<>>
    BY <1>1, <1>2, <1>3, <2>2 DEF Channels, ChannelsSound
  <2>3. \A q \in Opening' : job'[q].new <= made' /\ job'[q].new \notin InPool'
    <3>1. made + 1 \notin InPool
      BY <1>3
    <3>2. \A q \in Opening : job[q].new <= made + 1 /\ job[q].new \notin InPool
      BY <1>3 DEF Channels, ChannelsSound
    <3>3. job'[p].new <= made' /\ job'[p].new \notin InPool
      BY <1>1, <1>3, <3>1
    <3>4. \A q \in Opening : job'[q] = job[q]
      BY <1>1 DEF Opening
    <3>. QED
      BY <1>1, <3>2, <3>3, <3>4
  <2>. QED
    BY <2>1, <2>2, <2>3 DEF Channels, ChannelsSound, Once
<1>5. ExclusiveLending'
  <2>1. \A q \in Publishers : Busy(q)' => Once(job'[q].held)
    BY <1>1 DEF Channels, ChannelsSound
  <2>2. \A q, r \in Publishers : q # r => Held(q)' \cap Held(r)' = {}
    BY <1>1 DEF Channels, ExclusiveLending
  <2>3. ASSUME NEW q \in Opening', NEW r \in Publishers
        PROVE  /\ job'[q].new \notin Held(r)'
               /\ r \in Opening' /\ q # r => job'[q].new # job'[r].new
    <3>1. CASE q = p
      BY <1>1, <1>2, <1>3, <3>1
    <3>2. CASE q # p
      BY <1>1, <1>3, <3>2 DEF Channels, ExclusiveLending, Opening
    <3>. QED
      BY <3>1, <3>2
  <2>. QED
    BY <2>1, <2>2, <2>3 DEF ExclusiveLending, Once
<1>6. Book'
  BY <1>1 DEF Channels, Book, InPool
<1>. QED
  BY <1>4, <1>5, <1>6 DEF Channels

\* The channel publisher p waited for joins the pool, lent to it.
LEMMA ConnectChannels ==
  ASSUME PoolTypeOK, Channels, NEW p \in Opening, NEW c, c = job[p].new,
         pool' = Append(pool, c), inUse' = inUse \cup {c}, UNCHANGED <<made, closing>>,
         closing.phase # "done",
         Turns(p, Running("publish", job[p].emission, job[p].left, Append(job[p].held, c)))
  PROVE  Channels'
<1> DEFINE k == Append(job[p].held, c)
<1>1. p \in Publishers /\ Busy(p) /\ c \in Nat /\ job[p].held \in Seq(Nat)
  BY JobFields DEF Opening
<1>2. /\ \A q \in Publishers : c \notin Held(q)
      /\ \A q \in Opening \ {p} : job[q].new # c
      /\ c \notin InPool /\ c <= made
  BY DEF Channels, ExclusiveLending, ChannelsSound, Opening
<1>3. /\ k \in Seq(Nat) /\ k # <<>> /\ Elems(k) = Held(p) \cup {c} /\ Once(k)
  <2>1. Elems(job[p].held) = Held(p) /\ Once(job[p].held)
    BY <1>1, JobFields DEF Channels, ChannelsSound
  <2>. QED
    BY <1>1, <1>2, <2>1, AppendElems
<1>4. /\ InPool' = InPool \cup {c} /\ Once(pool')
  <2>1. pool \in Seq(Nat) /\ InPool = Elems(pool) /\ InPool' = Elems(pool') /\ Once(pool)
    BY DEF PoolTypeOK, InPool, Elems, Channels, ChannelsSound
  <2>. QED
    BY <1>1, <1>2, <2>1, AppendElems
<1>. HIDE DEF k
<1>5. /\ job'[p].pc = "publish" /\ job'[p].held = k
      /\ \A q \in Publishers \ {p} : job'[q] = job[q]
  BY <1>1 DEF Turns, Running, k
<1>6. /\ Busy(p)' /\ Held(p)' = Held(p) \cup {c} /\ Opening' = Opening \ {p}
      /\ \A q \in Publishers \ {p} : Held(q)' = Held(q) /\ (Busy(q)' <=> Busy(q))
  <2>1. Busy(p)' /\ Opening' = Opening \ {p}
    BY <1>1, <1>5 DEF Busy, Opening
  <2>2. Held(p)' = Elems(k)
    BY <1>5, <2>1 DEF Held, Elems
  <2>3. \A q \in Publishers \ {p} : Held(q)' = Held(q) /\ (Busy(q)' <=> Busy(q))
    BY <1>5 DEF Held, Busy
  <2>. QED
    BY <1>3, <2>1, <2>2, <2>3
<1>7. ChannelsSound'
  <2>1. Once(pool)' /\ (\A x \in InPool' : x <= made')
    <3>1. \A x \in InPool : x <= made
      BY DEF Channels, ChannelsSound
    <3>. QED
      BY <1>2, <1>4, <3>1 DEF Once
  <2>2. ASSUME NEW q \in Publishers, Busy(q)'
        PROVE  /\ Once(job'[q].held) /\ (\A x \in Held(q)' : x <= made')
               /\ job'[q].pc # "connect" => job'[q].held # <<>>
    BY <1>1, <1>2, <1>3, <1>5, <1>6, <2>2 DEF Channels, ChannelsSound
  <2>3. \A q \in Opening' : job'[q].new <= made' /\ job'[q].new \notin InPool'
    <3>1. \A q \in Opening \ {p} : job'[q] = job[q]
      BY <1>5 DEF Opening
    <3>. QED
      BY <1>2, <1>4, <1>6, <3>1 DEF Channels, ChannelsSound
  <2>. QED
    BY <2>1, <2>2, <2>3 DEF ChannelsSound, Once
<1>8. ExclusiveLending'
  <2>1. \A q \in Publishers : Busy(q)' => Once(job'[q].held)
    BY <1>3, <1>5, <1>6 DEF Channels, ChannelsSound
  <2>2. \A q, r \in Publishers : q # r => Held(q)' \cap Held(r)' = {}
    BY <1>2, <1>6 DEF Channels, ExclusiveLending
  <2>3. \A q \in Opening \ {p} : \A r \in Publishers :
          /\ job'[q].new \notin Held(r)'
          /\ r \in Opening \ {p} /\ q # r => job'[q].new # job'[r].new
    <3>1. \A q \in Opening \ {p} : job'[q] = job[q] /\ job[q].new # c
      BY <1>2, <1>5 DEF Opening
    <3>. QED
      BY <1>6, <3>1 DEF Channels, ExclusiveLending
  <2>. QED
    BY <1>6, <2>1, <2>2, <2>3 DEF ExclusiveLending, Once
<1>9. Book'
  BY <1>1, <1>4, <1>6 DEF Channels, Book
<1>. QED
  BY <1>7, <1>8, <1>9 DEF Channels

\* Publisher p gives back the channel it was lent last: it holds the others still,
\* or none and is done.
LEMMA ReleaseChannels ==
  ASSUME PoolTypeOK, Channels, NEW p \in Publishers, Busy(p), p \notin Opening,
         inUse' = inUse \ {Top(job[p].held)}, UNCHANGED <<pool, made, closing>>,
         NEW j, Turns(p, j), j.pc # "connect",
         IF Len(job[p].held) > 1
           THEN j.pc # "idle" /\ j.held = Below(job[p].held)
           ELSE j.pc = "idle"
  PROVE  Channels'
<1>1. /\ job[p].held \in Seq(Nat) /\ job[p].held # <<>> /\ Once(job[p].held)
      /\ Held(p) = Elems(job[p].held)
  BY JobFields DEF Channels, ChannelsSound, Opening
<1>2. PICK c : c = Top(job[p].held)
  OBVIOUS
<1>3. /\ job'[p] = j /\ \A q \in Publishers \ {p} : job'[q] = job[q]
      /\ Opening' = Opening
      /\ \A q \in Publishers \ {p} : Held(q)' = Held(q) /\ (Busy(q)' <=> Busy(q))
  BY DEF Turns, Opening, Held, Busy
<1>4. /\ c \in Held(p) /\ Held(p)' = Held(p) \ {c}
      /\ Busy(p)' => Once(j.held) /\ j.held # <<>>
  <2>1. CASE Len(job[p].held) > 1
    <3>1. /\ Elems(j.held) = Elems(job[p].held) \ {c}
          /\ Once(j.held) /\ j.held # <<>>
      BY <1>1, <1>2, <2>1, BelowElems
    <3>2. Held(p)' = Elems(j.held)
      BY <1>3, <2>1 DEF Held, Busy, Elems
    <3>3. c \in Elems(job[p].held)
      <4>1. Len(job[p].held) \in DOMAIN job[p].held
        BY <1>1, <2>1, LenProperties
      <4>. QED
        BY <1>2, <4>1 DEF Elems, Top
    <3>. QED
      BY <1>1, <3>1, <3>2, <3>3
  <2>2. CASE ~(Len(job[p].held) > 1)
    <3>1. Elems(job[p].held) = {c}
      BY <1>1, <1>2, <2>2, SingleElems
    <3>2. Held(p)' = {} /\ ~Busy(p)'
      BY <1>3, <2>2 DEF Held, Busy
    <3>. QED
      BY <1>1, <3>1, <3>2
  <2>. QED
    BY <2>1, <2>2
<1>5. ChannelsSound'
  <2>1. Once(pool)' /\ (\A x \in InPool' : x <= made')
    BY DEF Channels, ChannelsSound, Once, InPool
  <2>2. ASSUME NEW q \in Publishers, Busy(q)'
        PROVE  /\ Once(job'[q].held) /\ (\A x \in Held(q)' : x <= made')
               /\ job'[q].pc # "connect" => job'[q].held # <<>>
    BY <1>3, <1>4, <2>2 DEF Channels, ChannelsSound
  <2>3. \A q \in Opening' : job'[q].new <= made' /\ job'[q].new \notin InPool'
    BY <1>3 DEF Channels, ChannelsSound, InPool, Opening
  <2>. QED
    BY <2>1, <2>2, <2>3 DEF Channels, ChannelsSound, Once
<1>6. ExclusiveLending'
  <2>1. \A q \in Publishers : Busy(q)' => Once(job'[q].held)
    BY <1>3, <1>4 DEF Channels, ChannelsSound
  <2>2. \A q, r \in Publishers : q # r => Held(q)' \cap Held(r)' = {}
    BY <1>3, <1>4 DEF Channels, ExclusiveLending
  <2>3. \A q \in Opening : \A r \in Publishers :
          /\ job'[q].new \notin Held(r)'
          /\ r \in Opening /\ q # r => job'[q].new # job'[r].new
    <3>1. \A q \in Opening : job'[q] = job[q]
      BY <1>3 DEF Opening
    <3>. QED
      BY <1>3, <1>4, <3>1 DEF Channels, ExclusiveLending
  <2>. QED
    BY <1>3, <2>1, <2>2, <2>3 DEF ExclusiveLending, Once
<1>7. Book'
  <2>1. \A q \in Publishers \ {p} : c \notin Held(q)
    BY <1>4 DEF Channels, ExclusiveLending
  <2>. QED
    BY <1>2, <1>3, <1>4, <2>1 DEF Channels, Book, InPool
<1>. QED
  BY <1>5, <1>6, <1>7 DEF Channels

\* disconnect() has forgotten the pool; the calls go on with what they hold.
LEMMA ForgetChannels ==
  ASSUME PoolTypeOK, Channels, pool' = <<>>, closing'.phase = "done", UNCHANGED <<job, made>>
  PROVE  Channels'
<1>1. InPool' = {} /\ Once(pool)'
  BY DEF InPool, Once
<1>2. \A p \in Publishers : Held(p)' = Held(p) /\ (Busy(p)' <=> Busy(p))
  BY DEF Held, Busy
<1>3. ChannelsSound'
  BY <1>1, <1>2 DEF Channels, ChannelsSound, Opening, Once
<1>4. ExclusiveLending'
  BY <1>2 DEF Channels, ExclusiveLending, Opening
<1>. QED
  BY <1>3, <1>4 DEF Channels, Book

-----------------------------------------------------------------------------
(***************************************************************************)
(* How many channels                                                       *)
(***************************************************************************)

\* A channel that is free is lent before a new one is opened.
LEMMA NoneFree ==
  ASSUME PoolTypeOK, \A i \in DOMAIN pool : ~FirstFree(i)
  PROVE  InPool \subseteq inUse
<1> SUFFICES ASSUME NEW i \in DOMAIN pool, pool[i] \notin inUse PROVE FALSE
  BY DEF InPool
<1> DEFINE T == {k \in DOMAIN pool : pool[k] \notin inUse}
<1>1. DOMAIN pool = 1..Len(pool) /\ Len(pool) \in Nat
  BY LenProperties DEF PoolTypeOK
<1>2. T \subseteq Nat /\ T # {}
  BY <1>1
<1>3. PICK k \in T : \A j \in T : <<j, k>> \notin OpToRel(<, Nat)
  BY <1>2, NatLessThanWellFounded, WFMin
<1>4. \A j \in T : ~(j < k)
  BY <1>2, <1>3 DEF OpToRel
<1>5. \A j \in 1..k - 1 : pool[j] \in inUse
  BY <1>1, <1>4
<1>. QED
  BY <1>5 DEF FirstFree

\* The demand counts what is lent and what is being opened.
LEMMA DemandIsNat ==
  ASSUME IsFiniteSet(Publishers), PoolTypeOK, IsFiniteSet(inUse)
  PROVE  /\ IsFiniteSet(Opening) /\ Cardinality(Opening) \in Nat
         /\ Cardinality(inUse) \in Nat /\ Lent \in Nat
         /\ Greater(peak, Lent + 1) \in Nat
         /\ Greater(peak, Lent + 1) >= Lent + 1
         /\ Greater(peak, Lent + 1) >= peak
<1>1. IsFiniteSet(Opening) /\ Cardinality(Opening) \in Nat /\ Cardinality(inUse) \in Nat
  BY FS_Subset, FS_CardinalityType DEF Opening
<1>2. Lent \in Nat /\ peak \in Nat
  BY <1>1 DEF Lent, PoolTypeOK
<1>. QED
  BY <1>1, <1>2 DEF Greater

LEMMA LendFreeStep ==
  ASSUME IsFiniteSet(Publishers), PoolTypeOK, Channels, Demand, UNCHANGED closing,
         NEW p \in Publishers, p \notin Opening, NEW next,
         next.emission \in Emissions, next.left \in Nat, next.held \in Seq(Nat),
         Elems(next.held) = Held(p), Once(next.held), LendFree(p, next)
  PROVE  /\ Channels' /\ Demand'
         /\ pool' \in Seq(Nat) /\ inUse' \subseteq Nat /\ made' \in Nat /\ peak' \in Nat
         /\ \E j \in Job : /\ Turns(p, j) /\ j.pc = "publish"
                           /\ j.emission = next.emission /\ j.left = next.left
<1>1. PICK i \in DOMAIN pool :
        /\ FirstFree(i)
        /\ inUse' = inUse \cup {pool[i]}
        /\ job' = [job EXCEPT ![p] = Running("publish", next.emission, next.left,
                                             Append(next.held, pool[i]))]
        /\ peak' = Greater(peak, Lent + 1)
        /\ UNCHANGED <<pool, made>>
  BY DEF LendFree, Running
<1>2. PICK c \in Nat : c = pool[i] /\ c \in InPool /\ c \notin inUse
  <2>1. pool[i] \in Nat
    BY LenProperties DEF PoolTypeOK
  <2>. QED
    BY <1>1, <2>1 DEF FirstFree, InPool
<1> DEFINE j == Running("publish", next.emission, next.left, Append(next.held, c))
<1>3. /\ j \in Job /\ j.pc = "publish" /\ j.emission = next.emission /\ j.left = next.left
  <2>1. PICK h \in Seq(Nat) : h = Append(next.held, c)
    BY AppendElems
  <2>2. PICK e \in Emissions, n \in Nat : e = next.emission /\ n = next.left
    OBVIOUS
  <2>3. /\ Running("publish", e, n, h) \in Job
        /\ Running("publish", e, n, h).pc = "publish"
        /\ Running("publish", e, n, h).emission = e
        /\ Running("publish", e, n, h).left = n
    BY RunningIsJob
  <2>. QED
    BY <2>1, <2>2, <2>3
<1>4. Turns(p, j)
  BY <1>1, <1>2, <1>3, TurnsBy
<1>5. Channels'
  BY <1>1, <1>2, <1>4, LendChannels
<1>. HIDE DEF j
<1>6. Opening' = Opening
  BY <1>3, <1>4 DEF Turns, Opening
<1>7. /\ IsFiniteSet(inUse') /\ IsFiniteSet(InPool') /\ Len(pool') = Cardinality(InPool')
  BY <1>1, <1>2, FS_AddElement DEF Demand, InPool
<1>8. PoolFollowsDemand'
  <2>1. /\ Cardinality(Opening) \in Nat /\ peak' >= peak /\ peak' \in Nat /\ peak \in Nat
        /\ Len(pool) \in Nat
    BY <1>1, DemandIsNat, LenProperties DEF Demand, PoolTypeOK
  <2>. QED
    BY <1>1, <1>6, <2>1 DEF Demand, PoolFollowsDemand, Greater
<1>9. /\ pool' \in Seq(Nat) /\ inUse' \subseteq Nat /\ made' \in Nat /\ peak' \in Nat
  BY <1>1, <1>2, DemandIsNat DEF PoolTypeOK, Demand
<1>. QED
  BY <1>3, <1>4, <1>5, <1>7, <1>8, <1>9 DEF Demand

LEMMA OpenNewStep ==
  ASSUME IsFiniteSet(Publishers), PoolTypeOK, Channels, Demand, UNCHANGED closing,
         NEW p \in Publishers, p \notin Opening, NEW next,
         next.emission \in Emissions, next.left \in Nat, next.held \in Seq(Nat),
         Elems(next.held) = Held(p), Once(next.held), OpenNew(p, next)
  PROVE  /\ Channels' /\ Demand'
         /\ pool' \in Seq(Nat) /\ inUse' \subseteq Nat /\ made' \in Nat /\ peak' \in Nat
         /\ \E j \in Job : /\ Turns(p, j) /\ j.pc = "connect"
                           /\ j.emission = next.emission /\ j.left = next.left
<1> DEFINE j == [pc |-> "connect", emission |-> next.emission, left |-> next.left,
                 held |-> next.held, new |-> made + 1]
<1>1. /\ j \in Job /\ j.pc = "connect" /\ j.emission = next.emission /\ j.left = next.left
      /\ j.held = next.held /\ j.new = made + 1
  <2>1. made + 1 \in Nat
    BY DEF PoolTypeOK
  <2>. QED
    BY <2>1 DEF Job
<1>2. /\ made' = made + 1 /\ UNCHANGED <<pool, inUse>>
      /\ job' = [job EXCEPT ![p] = j]
      /\ peak' = Greater(peak, Lent + 1)
      /\ \A i \in DOMAIN pool : ~FirstFree(i)
  BY DEF OpenNew
<1>. HIDE DEF j
<1>3. Turns(p, j)
  BY <1>1, <1>2, TurnsBy
<1>4. Channels'
  BY <1>1, <1>2, <1>3, OpenChannels
<1>5. Opening' = Opening \cup {p}
  BY <1>1, <1>3 DEF Turns, Opening
<1>6. IsFiniteSet(inUse') /\ IsFiniteSet(InPool') /\ Len(pool') = Cardinality(InPool')
  BY <1>2 DEF Demand, InPool
<1>7. PoolFollowsDemand'
  <2>1. /\ Cardinality(Opening) \in Nat /\ peak' >= Lent + 1 /\ peak' \in Nat
        /\ Len(pool) \in Nat /\ Cardinality(inUse) \in Nat
    BY <1>2, DemandIsNat, LenProperties DEF Demand, PoolTypeOK
  <2>2. Cardinality(Opening') = Cardinality(Opening) + 1
    BY <1>5, DemandIsNat, FS_AddElement DEF Demand
  <2>3. Len(pool) <= Cardinality(inUse)
    BY <1>2, NoneFree, FS_Subset DEF Demand
  <2>4. Len(pool) + Cardinality(Opening') <= peak'
    BY <2>1, <2>2, <2>3 DEF Lent
  <2>. QED
    BY <1>2, <2>1, <2>2, <2>4 DEF PoolFollowsDemand, Greater
<1>8. /\ pool' \in Seq(Nat) /\ inUse' \subseteq Nat /\ made' \in Nat /\ peak' \in Nat
  BY <1>2, DemandIsNat DEF PoolTypeOK, Demand
<1>. QED
  BY <1>1, <1>3, <1>4, <1>6, <1>7, <1>8 DEF Demand

\* Getting a channel, whichever way; what else the caller must know of it.
LEMMA GetChannelStep ==
  ASSUME IsFiniteSet(Publishers), PoolTypeOK, Channels, Demand, UNCHANGED closing,
         NEW p \in Publishers, p \notin Opening, NEW next,
         next.emission \in Emissions, next.left \in Nat, next.held \in Seq(Nat),
         Elems(next.held) = Held(p), Once(next.held), GetChannel(p, next)
  PROVE  /\ Channels' /\ Demand'
         /\ pool' \in Seq(Nat) /\ inUse' \subseteq Nat /\ made' \in Nat /\ peak' \in Nat
         /\ \E j \in Job : /\ Turns(p, j) /\ j.pc \in {"connect", "publish"}
                           /\ j.emission = next.emission /\ j.left = next.left
<1>1. CASE LendFree(p, next)
  BY <1>1, LendFreeStep
<1>2. CASE OpenNew(p, next)
  BY <1>2, OpenNewStep
<1>. QED
  BY <1>1, <1>2 DEF GetChannel

\* Steps that change neither the pool nor who is waiting for a new channel.
LEMMA QuietDemand ==
  ASSUME Demand, UNCHANGED <<pool, peak>>, IsFiniteSet(inUse'), Opening' = Opening,
         closing'.phase = "done" <=> closing.phase = "done"
  PROVE  Demand'
  BY DEF Demand, PoolFollowsDemand, InPool

-----------------------------------------------------------------------------
(***************************************************************************)
(* What becomes of an emission                                             *)
(***************************************************************************)
Sent == [copies : Nat, result : {"unsent", "running", "published", "failed"}]

\* What CopiesCounted says of a publisher that is left with job j.
Counted(j) ==
  LET e == j.emission IN
    /\ j.left <= MaxRetries[e]
    /\ j.pc \in {"connect", "publish", "sleep"} =>
         sent'[e].copies + j.left <= MaxRetries[e] + broker'.outages
    /\ sent'[e].copies + j.left <= 1 + MaxRetries[e] + broker'.outages
    /\ j.pc \in {"confirm", "published"} /\ HasQueue(e) => sent'[e].copies > 0

\* Publisher p goes on with its emission, of which the broker may take a copy.
LEMMA DeliveryMoves ==
  ASSUME PoolTypeOK, Deliveries, NEW p \in Publishers, Busy(p), NEW j \in Job,
         Turns(p, j), j.pc # "idle", NEW e \in Emissions, e = job[p].emission,
         j.emission = e, sent' \in [Emissions -> Sent],
         \A f \in Emissions \ {e} : sent'[f] = sent[f],
         sent'[e].result = sent[e].result,
         broker'.outages = broker.outages, Counted(j)
  PROVE  Deliveries'
<1>1. /\ job'[p] = j /\ Busy(p)'
      /\ \A q \in Publishers \ {p} : job'[q] = job[q] /\ (Busy(q)' <=> Busy(q))
  BY DEF Turns, Busy
<1>2. /\ sent[e].result = "running"
      /\ \A q \in Publishers \ {p} : Busy(q) => job[q].emission # e
  BY DEF Deliveries, OneRun
<1>3. \A q \in Publishers : Busy(q) => job[q].emission \in Emissions
  BY JobFields
<1>4. OneRun'
  BY <1>1, <1>2, <1>3 DEF Deliveries, OneRun
<1>5. CopiesCounted'
  <2>1. ASSUME NEW q \in Publishers, Busy(q)', NEW f \in Emissions, f = job'[q].emission
        PROVE  /\ job'[q].left <= MaxRetries[f]
               /\ job'[q].pc \in {"connect", "publish", "sleep"} =>
                    sent'[f].copies + job'[q].left <= MaxRetries[f] + broker'.outages
               /\ sent'[f].copies + job'[q].left <= 1 + MaxRetries[f] + broker'.outages
               /\ job'[q].pc \in {"confirm", "published"} /\ HasQueue(f) =>
                    sent'[f].copies > 0
    <3>1. CASE q = p
      BY <1>1, <2>1, <3>1 DEF Counted
    <3>2. CASE q # p
      <4>1. Busy(q) /\ job'[q] = job[q] /\ sent'[f] = sent[f]
        BY <1>1, <1>2, <2>1, <3>2
      <4>. QED
        BY <2>1, <4>1 DEF Deliveries, CopiesCounted
    <3>. QED
      BY <3>1, <3>2
  <2>2. \A f \in Emissions : sent'[f].result = "unsent" => sent'[f].copies = 0
    BY <1>2 DEF Deliveries, CopiesCounted
  <2>3. \A q \in Publishers : Busy(q)' => job'[q].emission \in Emissions
    BY <1>1, <1>3
  <2>. QED
    BY <2>1, <2>2, <2>3 DEF CopiesCounted
<1>6. PublishedIsQueued'
  BY <1>2 DEF Deliveries, DeliverySound, PublishedIsQueued
<1>7. CopiesBounded'
  <2>1. sent'[e].copies + j.left <= 1 + MaxRetries[e] + broker'.outages
    BY DEF Counted
  <2>2. j.left \in Nat
    BY <1>1, <1>2 DEF Job
  <2>3. sent'[e].copies \in Nat /\ broker.outages \in Nat /\ MaxRetries[e] \in Nat
    BY DEF PoolTypeOK, Sent
  <2>4. sent'[e].copies <= 1 + MaxRetries[e] + broker'.outages
    BY <2>1, <2>2, <2>3
  <2>. QED
    BY <2>4 DEF Deliveries, DeliverySound, CopiesBounded
<1>. QED
  BY <1>4, <1>5, <1>6, <1>7 DEF Deliveries, DeliverySound

\* An emission begins.
LEMMA DeliveryBegins ==
  ASSUME PoolTypeOK, Deliveries, NEW p \in Publishers, NEW e \in Emissions,
         ~Busy(p), sent[e].result = "unsent",
         sent' = [sent EXCEPT ![e].result = "running"], UNCHANGED broker,
         NEW j \in Job, Turns(p, j), j.pc \in {"connect", "publish"}, j.emission = e,
         j.left = MaxRetries[e]
  PROVE  Deliveries' /\ sent' \in [Emissions -> Sent]
<1>1. /\ sent' \in [Emissions -> Sent]
      /\ \A f \in Emissions \ {e} : sent'[f] = sent[f]
      /\ sent'[e].result = "running" /\ sent'[e].copies = sent[e].copies
  BY DEF PoolTypeOK, Sent
<1>2. /\ job'[p] = j /\ Busy(p)'
      /\ \A q \in Publishers \ {p} : job'[q] = job[q] /\ (Busy(q)' <=> Busy(q))
  BY DEF Turns, Busy
<1>3. \A q \in Publishers : Busy(q) => job[q].emission \in Emissions /\ job[q].emission # e
  BY JobFields DEF Deliveries, OneRun
<1>4. sent[e].copies = 0 /\ MaxRetries[e] \in Nat /\ broker.outages \in Nat
  BY DEF Deliveries, CopiesCounted, PoolTypeOK
<1>5. OneRun'
  BY <1>1, <1>2, <1>3 DEF Deliveries, OneRun
<1>6. CopiesCounted'
  <2>1. ASSUME NEW q \in Publishers, Busy(q)', NEW f \in Emissions, f = job'[q].emission
        PROVE  /\ job'[q].left <= MaxRetries[f]
               /\ job'[q].pc \in {"connect", "publish", "sleep"} =>
                    sent'[f].copies + job'[q].left <= MaxRetries[f] + broker'.outages
               /\ sent'[f].copies + job'[q].left <= 1 + MaxRetries[f] + broker'.outages
               /\ job'[q].pc \in {"confirm", "published"} /\ HasQueue(f) =>
                    sent'[f].copies > 0
    <3>1. CASE q = p
      BY <1>1, <1>2, <1>4, <2>1, <3>1
    <3>2. CASE q # p
      <4>1. Busy(q) /\ job'[q] = job[q] /\ sent'[f] = sent[f]
        BY <1>1, <1>2, <1>3, <2>1, <3>2
      <4>. QED
        BY <2>1, <4>1 DEF Deliveries, CopiesCounted
    <3>. QED
      BY <3>1, <3>2
  <2>2. \A f \in Emissions : sent'[f].result = "unsent" => sent'[f].copies = 0
    BY <1>1 DEF Deliveries, CopiesCounted
  <2>3. \A q \in Publishers : Busy(q)' => job'[q].emission \in Emissions
    BY <1>2, <1>3
  <2>. QED
    BY <2>1, <2>2, <2>3 DEF CopiesCounted
<1>7. DeliverySound'
  BY <1>1 DEF Deliveries, DeliverySound, PublishedIsQueued, CopiesBounded
<1>. QED
  BY <1>1, <1>5, <1>6, <1>7 DEF Deliveries

\* An emission is settled: what its caller is told is what became of it.
LEMMA DeliveryEnds ==
  ASSUME PoolTypeOK, Deliveries, NEW p \in Publishers, NEW e \in Emissions,
         job[p].pc \in {"published", "failed"}, e = job[p].emission,
         sent' = [sent EXCEPT ![e].result = job[p].pc], UNCHANGED broker,
         Turns(p, Idling)
  PROVE  Deliveries' /\ sent' \in [Emissions -> Sent]
<1>1. /\ sent' \in [Emissions -> Sent]
      /\ \A f \in Emissions \ {e} : sent'[f] = sent[f]
      /\ sent'[e].result = job[p].pc /\ sent'[e].copies = sent[e].copies
  BY DEF PoolTypeOK, Sent
<1>2. /\ ~Busy(p)' /\ Busy(p)
      /\ \A q \in Publishers \ {p} : job'[q] = job[q] /\ (Busy(q)' <=> Busy(q))
  BY DEF Turns, Busy, Idling
<1>3. \A q \in Publishers : Busy(q) => job[q].emission \in Emissions
  BY JobFields
<1>4. \A q \in Publishers \ {p} : Busy(q) => job[q].emission # e
  BY <1>2 DEF Deliveries, OneRun
<1>5. OneRun'
  BY <1>1, <1>2, <1>3, <1>4 DEF Deliveries, OneRun
<1>6. CopiesCounted'
  <2>1. ASSUME NEW q \in Publishers, Busy(q)'
        PROVE  /\ Busy(q) /\ job'[q] = job[q] /\ job[q].emission \in Emissions
               /\ sent'[job[q].emission] = sent[job[q].emission]
    BY <1>1, <1>2, <1>3, <1>4, <2>1
  <2>2. \A f \in Emissions : sent'[f].result = "unsent" => sent'[f].copies = 0
    BY <1>1 DEF Deliveries, CopiesCounted
  <2>. QED
    BY <2>1, <2>2 DEF Deliveries, CopiesCounted
<1>7. DeliverySound'
  <2>1. job[p].pc = "published" /\ HasQueue(e) => sent[e].copies > 0
    BY <1>2 DEF Deliveries, CopiesCounted
  <2>. QED
    BY <1>1, <2>1 DEF Deliveries, DeliverySound, PublishedIsQueued, CopiesBounded
<1>. QED
  BY <1>1, <1>5, <1>6, <1>7 DEF Deliveries

-----------------------------------------------------------------------------
(***************************************************************************)
(* Every step                                                              *)
(***************************************************************************)
LEMMA EmitStep ==
  ASSUME IsFiniteSet(Publishers), PoolInv, NEW p \in Publishers, NEW e \in Emissions, Emit(p, e)
  PROVE  PoolInv'
<1> DEFINE next == [emission |-> e, left |-> MaxRetries[e], held |-> <<>>]
<1>1. /\ ~Busy(p) /\ sent[e].result = "unsent" /\ UNCHANGED <<broker, closing>>
      /\ sent' = [sent EXCEPT ![e].result = "running"]
      /\ GetChannel(p, next)
  BY DEF Emit
<1>2. /\ next.emission = e /\ next.left = MaxRetries[e] /\ next.held = <<>>
      /\ MaxRetries[e] \in Nat /\ <<>> \in Seq(Nat) /\ Elems(<<>>) = {} /\ Once(<<>>)
  BY DEF Elems, Once
<1>. HIDE DEF next
<1>3. Held(p) = {} /\ p \notin Opening
  BY <1>1, JobFields DEF PoolInv
<1>4. /\ Channels' /\ Demand'
      /\ pool' \in Seq(Nat) /\ inUse' \subseteq Nat /\ made' \in Nat /\ peak' \in Nat
      /\ \E j \in Job : /\ Turns(p, j) /\ j.pc \in {"connect", "publish"}
                        /\ j.emission = e /\ j.left = MaxRetries[e]
  <2>1. /\ next.emission \in Emissions /\ next.left \in Nat /\ next.held \in Seq(Nat)
        /\ Elems(next.held) = Held(p) /\ Once(next.held)
    BY <1>2, <1>3
  <2>2. /\ Channels' /\ Demand'
        /\ pool' \in Seq(Nat) /\ inUse' \subseteq Nat /\ made' \in Nat /\ peak' \in Nat
        /\ \E j \in Job : /\ Turns(p, j) /\ j.pc \in {"connect", "publish"}
                          /\ j.emission = next.emission /\ j.left = next.left
    BY <1>1, <1>3, <2>1, GetChannelStep DEF PoolInv
  <2>. QED
    BY <1>2, <2>2
<1>5. Deliveries' /\ sent' \in [Emissions -> Sent]
  BY <1>1, <1>4, DeliveryBegins DEF PoolInv
<1>6. PoolTypeOK'
  BY <1>1, <1>4, <1>5 DEF PoolInv, PoolTypeOK, Turns, Sent
<1>. QED
  BY <1>4, <1>5, <1>6 DEF PoolInv

LEMMA RetryPublishStep ==
  ASSUME IsFiniteSet(Publishers), PoolInv, NEW p \in Publishers, RetryPublish(p)
  PROVE  PoolInv'
<1>1. /\ job[p].pc = "sleep" /\ UNCHANGED <<broker, closing, sent>> /\ GetChannel(p, job[p])
      /\ Busy(p) /\ p \notin Opening
  BY DEF RetryPublish, Busy, Opening
<1>2. PICK e \in Emissions : e = job[p].emission
  BY <1>1, JobFields DEF PoolInv
<1>3. /\ job[p].left \in Nat /\ job[p].held \in Seq(Nat) /\ Elems(job[p].held) = Held(p)
      /\ Once(job[p].held)
  BY <1>1, JobFields DEF PoolInv, Channels, ChannelsSound
<1>4. /\ Channels' /\ Demand'
      /\ pool' \in Seq(Nat) /\ inUse' \subseteq Nat /\ made' \in Nat /\ peak' \in Nat
      /\ \E j \in Job : /\ Turns(p, j) /\ j.pc \in {"connect", "publish"}
                        /\ j.emission = e /\ j.left = job[p].left
  BY <1>1, <1>2, <1>3, GetChannelStep DEF PoolInv
<1>5. PICK j \in Job : /\ Turns(p, j) /\ j.pc \in {"connect", "publish"}
                       /\ j.emission = e /\ j.left = job[p].left
  BY <1>4
<1>6. Counted(j)
  BY <1>1, <1>2, <1>5 DEF Counted, PoolInv, Deliveries, CopiesCounted
<1>7. sent' \in [Emissions -> Sent]
  BY <1>1 DEF PoolInv, PoolTypeOK, Sent
<1>8. Deliveries'
  BY <1>1, <1>2, <1>5, <1>6, <1>7, DeliveryMoves DEF PoolInv
<1>9. PoolTypeOK'
  BY <1>1, <1>4, <1>5 DEF PoolInv, PoolTypeOK, Turns
<1>. QED
  BY <1>4, <1>8, <1>9 DEF PoolInv

LEMMA ConnectedStep ==
  ASSUME IsFiniteSet(Publishers), PoolInv, NEW p \in Publishers, Connected(p)
  PROVE  PoolInv'
<1>1. /\ job[p].pc = "connect" /\ closing.phase # "done" /\ p \in Opening /\ Busy(p)
      /\ UNCHANGED <<made, broker, closing, sent, peak>>
  BY DEF Connected, Opening, Busy
<1>2. PICK e \in Emissions, n \in Nat, h \in Seq(Nat), c \in Nat :
        e = job[p].emission /\ n = job[p].left /\ h = job[p].held /\ c = job[p].new
  BY <1>1, JobFields DEF PoolInv
<1>3. pool' = Append(pool, c) /\ inUse' = inUse \cup {c}
  BY <1>2 DEF Connected
<1> DEFINE j == Running("publish", e, n, Append(h, c))
<1>4. j \in Job /\ j.pc = "publish" /\ j.emission = e /\ j.left = n
  <2>1. PICK k \in Seq(Nat) : k = Append(h, c)
    BY AppendElems
  <2>2. /\ Running("publish", e, n, k) \in Job
        /\ Running("publish", e, n, k).pc = "publish"
        /\ Running("publish", e, n, k).emission = e
        /\ Running("publish", e, n, k).left = n
    BY RunningIsJob
  <2>. QED
    BY <2>1, <2>2
<1>5. Turns(p, j)
  <2>1. job' = [job EXCEPT ![p] = j]
    BY <1>2 DEF Connected, Running
  <2>. QED
    BY <1>4, <2>1, TurnsBy DEF PoolInv
<1>6. Channels'
  BY <1>1, <1>2, <1>3, <1>5, ConnectChannels DEF PoolInv
<1>. HIDE DEF j
<1>7. Opening' = Opening \ {p}
  BY <1>1, <1>4, <1>5 DEF Opening, Turns
<1>8. Demand'
  <2>1. c \notin InPool
    BY <1>1, <1>2 DEF PoolInv, Channels, ChannelsSound
  <2>2. InPool' = InPool \cup {c} /\ Len(pool') = Len(pool) + 1 /\ Len(pool) \in Nat
    <3>1. pool \in Seq(Nat) /\ InPool = Elems(pool) /\ InPool' = Elems(pool')
      BY DEF PoolInv, PoolTypeOK, InPool, Elems
    <3>. QED
      BY <1>3, <3>1, AppendElems, AppendProperties, LenProperties
  <2>3. /\ IsFiniteSet(InPool') /\ Cardinality(InPool') = Cardinality(InPool) + 1
        /\ IsFiniteSet(inUse')
    BY <1>3, <2>1, <2>2, FS_AddElement DEF PoolInv, Demand
  <2>4. /\ Cardinality(Opening') = Cardinality(Opening) - 1 /\ Cardinality(Opening) \in Nat
    BY <1>1, <1>7, DemandIsNat, FS_RemoveElement DEF PoolInv, Demand
  <2>5. Len(pool) + Cardinality(Opening) = Len(pool') + Cardinality(Opening')
    BY <2>2, <2>4
  <2>6. PoolFollowsDemand'
    BY <1>1, <2>5 DEF PoolInv, Demand, PoolFollowsDemand
  <2>. QED
    BY <2>2, <2>3, <2>6 DEF PoolInv, Demand
<1>9. Deliveries'
  <2>1. Counted(j)
    BY <1>1, <1>2, <1>4 DEF Counted, PoolInv, Deliveries, CopiesCounted
  <2>2. sent' \in [Emissions -> Sent]
    BY <1>1 DEF PoolInv, PoolTypeOK, Sent
  <2>. QED
    BY <1>1, <1>2, <1>4, <1>5, <2>1, <2>2, DeliveryMoves DEF PoolInv
<1>10. PoolTypeOK'
  <2>1. pool' \in Seq(Nat)
    BY <1>3, AppendProperties DEF PoolInv, PoolTypeOK
  <2>. QED
    BY <1>1, <1>3, <1>5, <2>1 DEF PoolInv, PoolTypeOK, Turns
<1>. QED
  BY <1>6, <1>8, <1>9, <1>10 DEF PoolInv

\* An assignment to the pc alone.
LEMMA PcMoves ==
  ASSUME NEW old, NEW pc, NEW e, NEW n, NEW h
  PROVE  [Running(old, e, n, h) EXCEPT !.pc = pc] = Running(pc, e, n, h)
  BY DEF Running

\* One to the tries left, and one to the channels held.
LEMMA LeftMoves ==
  ASSUME NEW pc, NEW e, NEW n, NEW m, NEW h
  PROVE  [Running(pc, e, n, h) EXCEPT !.left = m] = Running(pc, e, m, h)
  BY DEF Running

LEMMA HeldMoves ==
  ASSUME NEW pc, NEW e, NEW n, NEW h, NEW k
  PROVE  [Running(pc, e, n, h) EXCEPT !.held = k] = Running(pc, e, n, k)
  BY DEF Running

\* A publisher goes on with what it holds.
LEMMA GoesOn ==
  ASSUME PoolInv, NEW p \in Publishers, Busy(p), job[p].pc # "connect",
         UNCHANGED <<pool, inUse, made, broker, closing, peak>>,
         NEW pc \in {"publish", "confirm", "sleep", "published", "failed"},
         NEW n \in Nat, NEW e \in Emissions, e = job[p].emission,
         job' = [job EXCEPT ![p] = Running(pc, e, n, job[p].held)],
         sent' \in [Emissions -> Sent],
         \A f \in Emissions \ {e} : sent'[f] = sent[f],
         sent'[e].result = sent[e].result,
         Counted(Running(pc, e, n, job[p].held))
  PROVE  PoolInv'
<1>1. PICK h \in Seq(Nat) : h = job[p].held
  BY JobFields DEF PoolInv
<1>2. PICK j \in Job : j = Running(pc, e, n, h)
  BY RunningIsJob
<1>3. j.pc = pc /\ j.emission = e /\ j.held = h
  BY <1>2, RunningIsJob
<1>4. Turns(p, j) /\ Counted(j)
  BY <1>1, <1>2, TurnsBy DEF PoolInv
<1>5. Deliveries'
  BY <1>3, <1>4, DeliveryMoves DEF PoolInv
<1>6. Channels'
  BY <1>1, <1>3, <1>4, QuietChannels DEF PoolInv, Turns, Busy
<1>7. Demand'
  <2>1. Opening' = Opening
    BY <1>3, <1>4 DEF Turns, Opening
  <2>. QED
    BY <2>1, QuietDemand DEF PoolInv, Demand
<1>8. PoolTypeOK'
  BY <1>4 DEF PoolInv, PoolTypeOK, Turns, Sent
<1>. QED
  BY <1>5, <1>6, <1>7, <1>8 DEF PoolInv

LEMMA TakenStep ==
  ASSUME PoolInv, NEW p \in Publishers, Taken(p)
  PROVE  PoolInv'
<1>1. /\ job[p].pc = "publish" /\ Busy(p)
      /\ UNCHANGED <<pool, inUse, made, broker, closing, peak>>
  BY DEF Taken, Busy
<1>2. PICK e \in Emissions, n \in Nat, h \in Seq(Nat) :
        e = job[p].emission /\ n = job[p].left /\ h = job[p].held
  BY <1>1, JobFields DEF PoolInv
<1>3. job' = [job EXCEPT ![p] = Running("confirm", e, n, h)]
  <2>1. job[p] = Running("publish", e, n, h)
    BY <1>1, <1>2, RunningFields DEF PoolInv
  <2>2. job' = [job EXCEPT ![p] = [job[p] EXCEPT !.pc = "confirm"]]
    BY DEF Taken
  <2>3. [Running("publish", e, n, h) EXCEPT !.pc = "confirm"] = Running("confirm", e, n, h)
    BY PcMoves
  <2>. QED
    BY <2>1, <2>2, <2>3
<1>4. /\ sent' \in [Emissions -> Sent]
      /\ \A f \in Emissions \ {e} : sent'[f] = sent[f]
      /\ sent'[e].result = sent[e].result
      /\ sent'[e].copies = IF HasQueue(e) THEN sent[e].copies + 1 ELSE sent[e].copies
      /\ sent[e].copies \in Nat
  <2>1. PICK d \in Nat : d = IF HasQueue(e) THEN sent[e].copies + 1 ELSE sent[e].copies
    BY DEF PoolInv, PoolTypeOK
  <2>2. sent' = [sent EXCEPT ![e].copies = d]
    BY <1>2, <2>1 DEF Taken
  <2>. QED
    BY <2>1, <2>2 DEF PoolInv, PoolTypeOK, Sent
<1>5. Counted(Running("confirm", e, n, h))
  <2>1. /\ sent[e].copies + n <= MaxRetries[e] + broker.outages
        /\ n <= MaxRetries[e] /\ MaxRetries[e] \in Nat /\ broker.outages \in Nat
    BY <1>1, <1>2 DEF PoolInv, Deliveries, CopiesCounted, PoolTypeOK
  <2>2. PICK j : /\ j = Running("confirm", e, n, h)
                 /\ j.pc = "confirm" /\ j.emission = e /\ j.left = n
    BY RunningIsJob
  <2>3. sent'[e].copies <= sent[e].copies + 1 /\ (HasQueue(e) => sent'[e].copies > 0)
        /\ sent'[e].copies \in Nat
    BY <1>4
  <2>4. sent'[e].copies + n <= 1 + MaxRetries[e] + broker'.outages
    BY <1>1, <1>4, <2>1, <2>3
  <2>. QED
    BY <2>1, <2>2, <2>3, <2>4 DEF Counted
<1>. QED
  BY <1>1, <1>2, <1>3, <1>4, <1>5, GoesOn

LEMMA ConfirmedStep ==
  ASSUME PoolInv, NEW p \in Publishers, Confirmed(p)
  PROVE  PoolInv'
<1>1. /\ job[p].pc = "confirm" /\ Busy(p)
      /\ UNCHANGED <<pool, inUse, made, broker, closing, sent, peak>>
  BY DEF Confirmed, Busy
<1>2. PICK e \in Emissions, n \in Nat, h \in Seq(Nat) :
        e = job[p].emission /\ n = job[p].left /\ h = job[p].held
  BY <1>1, JobFields DEF PoolInv
<1>3. job' = [job EXCEPT ![p] = Running("published", e, n, h)]
  <2>1. job[p] = Running("confirm", e, n, h)
    BY <1>1, <1>2, RunningFields DEF PoolInv
  <2>2. job' = [job EXCEPT ![p] = [job[p] EXCEPT !.pc = "published"]]
    BY DEF Confirmed
  <2>3. [Running("confirm", e, n, h) EXCEPT !.pc = "published"] = Running("published", e, n, h)
    BY PcMoves
  <2>. QED
    BY <2>1, <2>2, <2>3
<1>4. sent' \in [Emissions -> Sent]
  BY <1>1 DEF PoolInv, PoolTypeOK, Sent
<1>5. Counted(Running("published", e, n, h))
  BY <1>1, <1>2 DEF Counted, Running, PoolInv, Deliveries, CopiesCounted
<1>. QED
  BY <1>1, <1>2, <1>3, <1>4, <1>5, GoesOn

LEMMA RejectedStep ==
  ASSUME PoolInv, NEW p \in Publishers, Rejected(p)
  PROVE  PoolInv'
<1>1. /\ job[p].pc \in {"publish", "confirm"} /\ Busy(p) /\ job[p].pc # "connect"
      /\ UNCHANGED <<pool, inUse, made, broker, closing, sent, peak>>
  BY DEF Rejected, Busy
<1>2. PICK e \in Emissions, n \in Nat, h \in Seq(Nat) :
        e = job[p].emission /\ n = job[p].left /\ h = job[p].held
  BY <1>1, JobFields DEF PoolInv
<1>3. job[p] = Running(job[p].pc, e, n, h)
  BY <1>1, <1>2, RunningFields DEF PoolInv
<1>4. sent' \in [Emissions -> Sent]
  BY <1>1 DEF PoolInv, PoolTypeOK, Sent
<1>5. /\ sent[e].copies + n <= 1 + MaxRetries[e] + broker.outages
      /\ n <= MaxRetries[e] /\ MaxRetries[e] \in Nat /\ broker.outages \in Nat
      /\ sent[e].copies \in Nat
  BY <1>1, <1>2 DEF PoolInv, Deliveries, CopiesCounted, PoolTypeOK
<1>6. CASE n > 0
  <2>1. PICK m \in Nat : m = n - 1
    BY <1>6
  <2>2. job' = [job EXCEPT ![p].pc = "sleep", ![p].left = @ - 1]
    BY <1>2, <1>6 DEF Rejected
  <2>3. job' = [job EXCEPT ![p] = Running("sleep", e, m, h)]
    <3>1. job' = [job EXCEPT ![p] = [job[p] EXCEPT !.pc = "sleep", !.left = m]]
      BY <1>2, <2>1, <2>2
    <3>2. job' = [job EXCEPT ![p] = [[job[p] EXCEPT !.pc = "sleep"] EXCEPT !.left = m]]
      BY <3>1
    <3>3. [Running(job[p].pc, e, n, h) EXCEPT !.pc = "sleep"] = Running("sleep", e, n, h)
      BY PcMoves
    <3>4. [Running("sleep", e, n, h) EXCEPT !.left = m] = Running("sleep", e, m, h)
      BY LeftMoves
    <3>. QED
      BY <1>3, <3>2, <3>3, <3>4
  <2>4. Counted(Running("sleep", e, m, h))
    BY <1>1, <1>5, <2>1 DEF Counted, Running
  <2>. QED
    BY <1>1, <1>2, <1>4, <2>3, <2>4, GoesOn
<1>7. CASE ~(n > 0)
  <2>1. job' = [job EXCEPT ![p].pc = "failed"]
    BY <1>2, <1>7 DEF Rejected
  <2>2. job' = [job EXCEPT ![p] = Running("failed", e, n, h)]
    <3>1. job' = [job EXCEPT ![p] = [job[p] EXCEPT !.pc = "failed"]]
      BY <2>1
    <3>2. [Running(job[p].pc, e, n, h) EXCEPT !.pc = "failed"] = Running("failed", e, n, h)
      BY PcMoves
    <3>. QED
      BY <1>3, <3>1, <3>2
  <2>3. Counted(Running("failed", e, n, h))
    BY <1>1, <1>5 DEF Counted, Running
  <2>. QED
    BY <1>1, <1>2, <1>4, <2>2, <2>3, GoesOn
<1>. QED
  BY <1>6, <1>7

LEMMA ReleaseChannelStep ==
  ASSUME PoolInv, NEW p \in Publishers, ReleaseChannel(p)
  PROVE  PoolInv'
<1>1. /\ job[p].pc \in {"published", "failed"} /\ Busy(p) /\ p \notin Opening
      /\ job[p].pc # "connect"
      /\ inUse' = inUse \ {Top(job[p].held)}
      /\ UNCHANGED <<pool, made, broker, closing, peak>>
  BY DEF ReleaseChannel, Busy, Opening
<1>2. PICK e \in Emissions, n \in Nat, h \in Seq(Nat) :
        e = job[p].emission /\ n = job[p].left /\ h = job[p].held
  BY <1>1, JobFields DEF PoolInv
<1>3. Once(h)
  BY <1>1, <1>2 DEF PoolInv, Channels, ChannelsSound
<1>4. /\ IsFiniteSet(inUse') /\ inUse' \subseteq Nat
  BY <1>1, FS_Subset DEF PoolInv, Demand, PoolTypeOK
<1>5. CASE Len(h) > 1
  <2>1. PICK k \in Seq(Nat) : k = Below(h)
    BY <1>3, <1>5, BelowElems
  <2>2. sent' = sent /\ job' = [job EXCEPT ![p].held = k]
    BY <1>2, <1>5, <2>1 DEF ReleaseChannel
  <2>3. PICK j \in Job : j = Running(job[p].pc, e, n, k)
    BY <1>1, RunningIsJob
  <2>4. j.pc = job[p].pc /\ j.emission = e /\ j.left = n /\ j.held = k
    BY <1>1, <2>3, RunningIsJob
  <2>5. Turns(p, j)
    <3>1. job[p] = Running(job[p].pc, e, n, h)
      BY <1>1, <1>2, RunningFields DEF PoolInv
    <3>2. [Running(job[p].pc, e, n, h) EXCEPT !.held = k] = Running(job[p].pc, e, n, k)
      BY HeldMoves
    <3>3. job' = [job EXCEPT ![p] = [job[p] EXCEPT !.held = k]]
      BY <2>2
    <3>4. job' = [job EXCEPT ![p] = j]
      BY <2>3, <3>1, <3>2, <3>3
    <3>. QED
      BY <3>4, TurnsBy DEF PoolInv
  <2>6. Channels'
    BY <1>1, <1>2, <1>5, <2>1, <2>4, <2>5, ReleaseChannels DEF PoolInv
  <2>7. Opening' = Opening
    BY <1>1, <2>4, <2>5 DEF Opening, Turns
  <2>8. Demand'
    BY <1>1, <1>4, <2>7, QuietDemand DEF PoolInv
  <2>9. Counted(j)
    BY <1>1, <1>2, <2>2, <2>4 DEF Counted, PoolInv, Deliveries, CopiesCounted
  <2>10. sent' \in [Emissions -> Sent]
    BY <2>2 DEF PoolInv, PoolTypeOK, Sent
  <2>11. Deliveries'
    BY <1>1, <1>2, <2>2, <2>4, <2>5, <2>9, <2>10, DeliveryMoves DEF PoolInv
  <2>12. PoolTypeOK'
    BY <1>1, <1>4, <2>2, <2>5 DEF PoolInv, PoolTypeOK, Turns
  <2>. QED
    BY <2>6, <2>8, <2>11, <2>12 DEF PoolInv
<1>6. CASE ~(Len(h) > 1)
  <2>1. sent' = [sent EXCEPT ![e].result = job[p].pc] /\ job' = [job EXCEPT ![p] = Idling]
    BY <1>2, <1>6 DEF ReleaseChannel
  <2>2. Idling \in Job /\ Idling.pc = "idle"
    BY DEF Idling, Job
  <2>3. Turns(p, Idling)
    BY <2>1, <2>2, TurnsBy DEF PoolInv
  <2>4. Channels'
    BY <1>1, <1>2, <1>6, <2>2, <2>3, ReleaseChannels DEF PoolInv
  <2>5. Opening' = Opening
    BY <1>1, <2>2, <2>3 DEF Opening, Turns
  <2>6. Demand'
    BY <1>1, <1>4, <2>5, QuietDemand DEF PoolInv
  <2>7. Deliveries' /\ sent' \in [Emissions -> Sent]
    BY <1>1, <1>2, <2>1, <2>3, DeliveryEnds DEF PoolInv
  <2>8. PoolTypeOK'
    BY <1>1, <1>4, <2>3, <2>7 DEF PoolInv, PoolTypeOK, Turns, Sent
  <2>. QED
    BY <2>4, <2>6, <2>7, <2>8 DEF PoolInv
<1>. QED
  BY <1>5, <1>6

\* The connection is lost; what it carried unconfirmed will be published again.
LEMMA OutageStep ==
  ASSUME PoolInv, Outage
  PROVE  PoolInv'
<1>1. /\ broker.outages < MaxOutages /\ UNCHANGED <<pool, inUse, made, closing, sent, peak>>
      /\ broker' = [up |-> FALSE, outages |-> broker.outages + 1]
      /\ job' = [q \in Publishers |->
                   IF job[q].pc = "confirm" THEN [job[q] EXCEPT !.pc = "publish"] ELSE job[q]]
  BY DEF Outage
<1>2. broker.outages \in Nat /\ broker' \in [up : BOOLEAN, outages : 0..MaxOutages]
      /\ broker'.outages = broker.outages + 1
  BY <1>1 DEF PoolInv, PoolTypeOK
<1>3. ASSUME NEW q \in Publishers, job[q].pc = "confirm"
      PROVE  job'[q] = Running("publish", job[q].emission, job[q].left, job[q].held)
  <2>1. job[q] = Running("confirm", job[q].emission, job[q].left, job[q].held)
    BY <1>3, RunningFields DEF PoolInv, Busy
  <2>2. job'[q] = [job[q] EXCEPT !.pc = "publish"]
    BY <1>1, <1>3
  <2>. QED
    BY <2>1, <2>2, PcMoves
<1>4. ASSUME NEW q \in Publishers
      PROVE  /\ job'[q] \in Job
             /\ \/ job'[q] = job[q] /\ job[q].pc # "confirm"
                \/ /\ job[q].pc = "confirm" /\ job'[q].pc = "publish"
                   /\ job'[q].emission = job[q].emission /\ job'[q].left = job[q].left
                   /\ job'[q].held = job[q].held
  <2>1. CASE job[q].pc = "confirm"
    <3>1. PICK e \in Emissions, n \in Nat, h \in Seq(Nat) :
            e = job[q].emission /\ n = job[q].left /\ h = job[q].held
      BY <2>1, JobFields DEF PoolInv, Busy
    <3>2. job'[q] = Running("publish", e, n, h)
      BY <1>3, <2>1, <3>1
    <3>. QED
      BY <2>1, <3>1, <3>2, RunningIsJob
  <2>2. CASE job[q].pc # "confirm"
    BY <1>1, <2>2 DEF PoolInv, PoolTypeOK
  <2>. QED
    BY <2>1, <2>2
<1>5. Channels'
  BY <1>1, <1>4, QuietChannels DEF PoolInv
<1>6. Demand'
  <2>1. Opening' = Opening
    BY <1>4 DEF Opening
  <2>. QED
    BY <1>1, <2>1, QuietDemand DEF PoolInv, Demand
<1>7. PoolTypeOK'
  <2>1. job' \in [Publishers -> Job]
    BY <1>1, <1>4
  <2>. QED
    BY <1>1, <1>2, <2>1 DEF PoolInv, PoolTypeOK
<1>8. \A q \in Publishers : /\ Busy(q)' <=> Busy(q)
                            /\ Busy(q) => /\ job'[q].emission = job[q].emission
                                          /\ job[q].emission \in Emissions
                                          /\ job[q].left \in Nat
  BY <1>4, JobFields DEF Busy, PoolInv
<1>9. OneRun'
  BY <1>1, <1>8 DEF PoolInv, Deliveries, OneRun
<1>10. CopiesCounted'
  <2>1. ASSUME NEW q \in Publishers, Busy(q)', NEW f \in Emissions, f = job'[q].emission
        PROVE  /\ job'[q].left <= MaxRetries[f]
               /\ job'[q].pc \in {"connect", "publish", "sleep"} =>
                    sent'[f].copies + job'[q].left <= MaxRetries[f] + broker'.outages
               /\ sent'[f].copies + job'[q].left <= 1 + MaxRetries[f] + broker'.outages
               /\ job'[q].pc \in {"confirm", "published"} /\ HasQueue(f) =>
                    sent'[f].copies > 0
    <3>1. /\ job[q].left <= MaxRetries[f]
          /\ job[q].pc \in {"connect", "publish", "sleep"} =>
               sent[f].copies + job[q].left <= MaxRetries[f] + broker.outages
          /\ sent[f].copies + job[q].left <= 1 + MaxRetries[f] + broker.outages
          /\ job[q].pc \in {"confirm", "published"} /\ HasQueue(f) => sent[f].copies > 0
      BY <1>8, <2>1 DEF PoolInv, Deliveries, CopiesCounted
    <3>2. sent[f].copies \in Nat /\ MaxRetries[f] \in Nat /\ job[q].left \in Nat
      BY <1>8, <2>1 DEF PoolInv, PoolTypeOK
    <3>. QED
      BY <1>1, <1>2, <1>4, <3>1, <3>2
  <2>2. \A f \in Emissions : sent'[f].result = "unsent" => sent'[f].copies = 0
    BY <1>1 DEF PoolInv, Deliveries, CopiesCounted
  <2>3. \A q \in Publishers : Busy(q)' => job'[q].emission \in Emissions
    BY <1>8
  <2>. QED
    BY <2>1, <2>2, <2>3 DEF CopiesCounted
<1>11. DeliverySound'
  <2>1. ASSUME NEW f \in Emissions
        PROVE  sent'[f].copies <= 1 + MaxRetries[f] + broker'.outages
    <3>1. sent[f].copies <= 1 + MaxRetries[f] + broker.outages
      BY DEF PoolInv, Deliveries, DeliverySound, CopiesBounded
    <3>2. sent[f].copies \in Nat /\ MaxRetries[f] \in Nat
      BY DEF PoolInv, PoolTypeOK
    <3>. QED
      BY <1>1, <1>2, <3>1, <3>2
  <2>2. PublishedIsQueued'
    BY <1>1 DEF PoolInv, Deliveries, DeliverySound, PublishedIsQueued
  <2>. QED
    BY <2>1, <2>2 DEF DeliverySound, CopiesBounded
<1>. QED
  BY <1>5, <1>6, <1>7, <1>9, <1>10, <1>11 DEF PoolInv, Deliveries

\* The broker comes back, and the shutdown goes on without forgetting the pool.
LEMMA ShutdownStep ==
  ASSUME PoolInv, Reconnect \/ CloseChannel \/ CloseFails
  PROVE  PoolInv'
<1>1. /\ UNCHANGED <<pool, inUse, made, job, sent, peak>>
      /\ broker' \in [up : BOOLEAN, outages : 0..MaxOutages]
      /\ broker'.outages = broker.outages
      /\ closing' \in [phase : {"no", "closing", "failed", "done"}, next : Nat]
      /\ closing'.phase = "done" <=> closing.phase = "done"
  <2>1. /\ broker \in [up : BOOLEAN, outages : 0..MaxOutages]
        /\ closing \in [phase : {"no", "closing", "failed", "done"}, next : Nat]
    BY DEF PoolInv, PoolTypeOK
  <2>2. CASE Reconnect
    BY <2>1, <2>2 DEF Reconnect
  <2>3. CASE CloseChannel
    BY <2>1, <2>3 DEF CloseChannel
  <2>4. CASE CloseFails
    BY <2>1, <2>4 DEF CloseFails
  <2>. QED
    BY <2>2, <2>3, <2>4
<1>2. Channels'
  BY <1>1, QuietChannels DEF PoolInv
<1>3. Demand'
  BY <1>1, QuietDemand DEF PoolInv, Demand, Opening
<1>4. PoolTypeOK'
  BY <1>1 DEF PoolInv, PoolTypeOK
<1>5. Deliveries'
  BY <1>1 DEF PoolInv, Deliveries, OneRun, CopiesCounted, DeliverySound, PublishedIsQueued,
       CopiesBounded, Busy
<1>. QED
  BY <1>2, <1>3, <1>4, <1>5 DEF PoolInv

LEMMA ForgetPoolStep ==
  ASSUME PoolInv, ForgetPool
  PROVE  PoolInv'
<1>1. /\ UNCHANGED <<made, job, broker, sent, peak>> /\ pool' = <<>> /\ inUse' = {}
      /\ closing' = [phase |-> "done", next |-> 1]
  BY DEF ForgetPool
<1>2. Channels'
  BY <1>1, ForgetChannels DEF PoolInv
<1>3. Demand'
  <2>1. InPool' = {} /\ Len(pool') = 0
    BY <1>1 DEF InPool
  <2>. QED
    BY <1>1, <2>1, FS_EmptySet DEF Demand, PoolFollowsDemand
<1>4. PoolTypeOK'
  BY <1>1 DEF PoolInv, PoolTypeOK
<1>5. Deliveries'
  BY <1>1 DEF PoolInv, Deliveries, OneRun, CopiesCounted, DeliverySound, PublishedIsQueued,
       CopiesBounded, Busy
<1>. QED
  BY <1>2, <1>3, <1>4, <1>5 DEF PoolInv

-----------------------------------------------------------------------------
(***************************************************************************)
(* The invariant, and what follows from it                                 *)
(***************************************************************************)
LEMMA PoolInitInvariant == PoolInit => PoolInv
<1> SUFFICES ASSUME PoolInit PROVE PoolInv
  OBVIOUS
<1>1. /\ \A p \in Publishers : job[p] = Idling /\ ~Busy(p) /\ Held(p) = {}
      /\ Opening = {}
  BY DEF PoolInit, Busy, Held, Opening, Idling
<1>2. /\ pool = [i \in 1..PoolSize |-> i] /\ made = PoolSize /\ inUse = {}
      /\ closing.phase = "no" /\ PoolSize \in Nat
  BY DEF PoolInit
<1>3. pool \in Seq(Nat) /\ Len(pool) = PoolSize /\ DOMAIN pool = 1..PoolSize
  BY <1>2
<1>4. InPool = 1..PoolSize /\ Once(pool)
  BY <1>2, <1>3 DEF InPool, Once
<1>5. PoolTypeOK
  BY <1>2, <1>3 DEF PoolInit, PoolTypeOK, Idling, Job
<1>6. Channels
  BY <1>1, <1>2, <1>4 DEF Channels, ChannelsSound, ExclusiveLending, Book
<1>7. Demand
  <2>1. Cardinality(InPool) = PoolSize /\ IsFiniteSet(InPool)
    BY <1>2, <1>4, FS_Interval
  <2>2. PoolFollowsDemand
    BY <1>1, <1>2, <1>3, FS_EmptySet DEF PoolFollowsDemand, Greater, PoolInit
  <2>. QED
    BY <1>2, <1>3, <2>1, <2>2, FS_EmptySet DEF Demand
<1>8. Deliveries
  BY <1>1 DEF PoolInit, Deliveries, OneRun, CopiesCounted, DeliverySound, PublishedIsQueued,
       CopiesBounded
<1>. QED
  BY <1>5, <1>6, <1>7, <1>8 DEF PoolInv

LEMMA PoolNextInvariant ==
  ASSUME IsFiniteSet(Publishers), PoolInv, [PoolNext]_poolVars
  PROVE  PoolInv'
<1>1. CASE UNCHANGED poolVars
  <2>1. UNCHANGED <<pool, inUse, made, job, broker, closing, sent, peak>>
    BY <1>1 DEF poolVars
  <2>2. Channels'
    BY <2>1, QuietChannels DEF PoolInv
  <2>3. Demand'
    BY <2>1, QuietDemand DEF PoolInv, Demand, Opening
  <2>. QED
    BY <2>1, <2>2, <2>3 DEF PoolInv, PoolTypeOK, Deliveries, OneRun, CopiesCounted,
       DeliverySound, PublishedIsQueued, CopiesBounded, Busy
<1>2. ASSUME NEW p \in Publishers, NEW e \in Emissions, Emit(p, e) PROVE PoolInv'
  BY <1>2, EmitStep
<1>3. ASSUME NEW p \in Publishers,
             \/ Connected(p) \/ Taken(p) \/ Confirmed(p) \/ Rejected(p)
             \/ RetryPublish(p) \/ ReleaseChannel(p)
      PROVE  PoolInv'
  BY <1>3, ConnectedStep, TakenStep, ConfirmedStep, RejectedStep, RetryPublishStep,
     ReleaseChannelStep
<1>4. CASE Outage
  BY <1>4, OutageStep
<1>5. CASE Reconnect \/ CloseChannel \/ CloseFails
  BY <1>5, ShutdownStep
<1>6. CASE ForgetPool
  BY <1>6, ForgetPoolStep
<1>. QED
  BY <1>1, <1>2, <1>3, <1>4, <1>5, <1>6 DEF PoolNext

LEMMA PoolInvariance == ASSUME IsFiniteSet(Publishers) PROVE PoolSpec => []PoolInv
<1>1. PoolInv /\ [PoolNext]_poolVars => PoolInv'
  BY PoolNextInvariant
<1>. QED
  BY PoolInitInvariant, <1>1, PTL DEF PoolSpec

\* The types of every variable.  As in what follows, only finitely many emissions
\* overlap.
THEOREM PoolTypeCorrect == ASSUME IsFiniteSet(Publishers) PROVE PoolSpec => []PoolTypeOK
<1>1. PoolInv => PoolTypeOK
  BY DEF PoolInv
<1>. QED
  BY <1>1, PoolInvariance, PTL

\* However many emissions overlap, fail and are retried while they hold channels,
\* getChannel lends each channel to one of them, releaseChannel gets every one
\* back, and the pool outgrows its size only to the demand there once was.
THEOREM LendingIsSound == ASSUME IsFiniteSet(Publishers) PROVE PoolSpec => []LendingSound
<1>1. PoolInv => LendingSound
  <2> SUFFICES ASSUME PoolInv PROVE LendingSound
    OBVIOUS
  <2>1. LendingBook
    BY DEF PoolInv, Channels, Book, LendingBook
  <2>. QED
    BY <2>1 DEF PoolInv, Channels, Demand, LendingSound
<1>. QED
  BY <1>1, PoolInvariance, PTL

\* emitDistributed resolves only when the event is in its queue, if it has one; and
\* every copy of an event is accounted for by one of its tries or by an outage.
THEOREM DeliveryIsSound == ASSUME IsFiniteSet(Publishers) PROVE PoolSpec => []DeliverySound
<1>1. PoolInv => DeliverySound
  BY DEF PoolInv, Deliveries
<1>. QED
  BY <1>1, PoolInvariance, PTL
=============================================================================
