--------------------------- MODULE Discovery_proofs ---------------------------
(***************************************************************************)
(* Theorems about Discovery, for any markets, platforms and tags, however  *)
(* the texts of the markets compare, and with every kind of upset: the     *)
(* types, that a reported pair can be found again, that a pair in the      *)
(* store is reported, and that the backfills miss no market.               *)
(***************************************************************************)
EXTENDS Discovery, WellFoundedInduction, TLAPS

USE DiscoveryAssumption

(* A bounded set of numbers has a maximum, the mirror image of a minimum.   *)
LEMMA MaxInRange ==
    ASSUME NEW N \in Nat, NEW S \in SUBSET (0..N), S # {}
    PROVE  Max(S) \in S
<1> DEFINE less == OpToRel(<, Nat)
           T == {x \in 0..N : N - x \in S}
<1>1. \A x, y \in Nat : y < x => <<y, x>> \in less
  BY DEF OpToRel
<1>2. PICK s \in S : TRUE
  OBVIOUS
<1>3. N - s \in 0..N /\ N - (N - s) = s
  OBVIOUS
<1>4. T \subseteq Nat /\ T # {}
  <2>1. N - s \in T
    BY <1>2, <1>3
  <2>2. T \subseteq 0..N /\ 0..N \subseteq Nat
    OBVIOUS
  <2> HIDE DEF T
  <2> QED  BY <2>1, <2>2
<1>5. IsWellFoundedOn(less, Nat)
  BY NatLessThanWellFounded
<1> HIDE DEF less
<1>6. PICK x \in T : \A y \in T : ~ (<<y, x>> \in less)
  <2> HIDE DEF T
  <2> QED  BY <1>4, <1>5, WFMin
<1>7. \A y \in S : N - x >= y
  <2> SUFFICES ASSUME NEW y \in S PROVE ~(N - x < y)
    OBVIOUS
  <2>1. N - y \in 0..N /\ N - (N - y) = y
    OBVIOUS
  <2>2. N - y \in T
    BY <2>1
  <2>3. x \in Nat /\ N - y \in Nat
    BY <2>1
  <2>4. ~(N - y < x)
    <3> HIDE DEF T
    <3> QED  BY <1>1, <1>6, <2>2, <2>3
  <2> QED  BY <2>3, <2>4
<1>8. N - x \in S
  OBVIOUS
<1>9. Max(S) \in S
  BY <1>7, <1>8 DEF Max
<1> QED  BY <1>9

(* How far the start goes back is a time.                                   *)
LEMMA LastInsertIsTime == ASSUME TypeOK, NEW p \in Platforms PROVE LastInsert(p) \in 0..MaxTime
<1> DEFINE times == {0} \cup {store[m] : m \in {n \in Markets : PlatformOf[n] = p}}
<1>1. times \subseteq 0..MaxTime /\ times # {}
  BY DEF TypeOK
<1> HIDE DEF times
<1>2. Max(times) \in 0..MaxTime
  BY <1>1, MaxInRange
<1> QED  BY <1>2 DEF LastInsert, times

-------------------------------------------------------------------------------
Job == [at : {"off", "fetch", "search", "insert", "send", "done"},
          got : SUBSET Markets, stamp : 0..MaxTime, hits : SUBSET (Markets \X Markets)]

(* The market can be found, or its recorded close is past.                  *)
Findable(m) == store[m] # 0 \/ m \in overdue

(* A worker that has hits found their second halves in the store, and sends *)
(* them when it has inserted the first; what it inserts has a stamp.        *)
Sound(job) ==
    /\ job.at \in {"search", "insert", "send"} => job.stamp # 0
    /\ job.at = "send" => \A m \in job.got : Findable(m)
    /\ \A hit \in job.hits :
          /\ job.at \in {"insert", "send"}
          /\ hit[1] \in job.got /\ Findable(hit[2])

HitsAreFindable == \A w \in Workers : Sound(work[w])

DiscoveryInv == TypeOK /\ ReportedAreStored /\ HitsAreFindable

LEMMA WorkerSets == \A p \in Platforms : Backfills(p) \subseteq Workers /\ <<p, Live>> \in Workers
  BY DEF Backfills, Workers

LEMMA DiscoveryStarts == Init => DiscoveryInv
<1> SUFFICES ASSUME Init PROVE DiscoveryInv  OBVIOUS
<1>1. 0..Start \subseteq 0..MaxTime /\ Start \in Start..MaxTime /\ 0 \in 0..MaxTime
  OBVIOUS
<1>2. Idle \in Job /\ Idle.at = "off" /\ Idle.hits = {}
  BY <1>1 DEF Idle, Job
<1> HIDE DEF Idle
<1>3. TypeOK
  BY <1>1, <1>2 DEF Init, TypeOK, Job, Upsets
<1>4. ReportedAreStored
  BY DEF Init, ReportedAreStored
<1>5. HitsAreFindable
  BY <1>2 DEF Init, HitsAreFindable, Sound
<1> QED  BY <1>3, <1>4, <1>5 DEF DiscoveryInv

(* An upset is of one of the kinds.                                         *)
LEMMA UpsetTyped ==
    ASSUME upset \subseteq Upsets, NEW kind \in Upsets, NEW b, Upset(kind) \/ UpsetIf(kind, b) \/ UNCHANGED upset
    PROVE  upset' \subseteq Upsets
  BY DEF Upset, UpsetBy, UpsetIf

(* What can be found stays so when the store only grows, and when the       *)
(* cleaner takes what is overdue out of it.                                 *)
StoreKeeps == \A m \in Markets : Findable(m) => Findable(m)'

LEMMA ReportsStay ==
    ASSUME TypeOK, ReportedAreStored, StoreKeeps, UNCHANGED reported
    PROVE  ReportedAreStored'
  BY DEF TypeOK, ReportedAreStored, StoreKeeps, Findable

(* A job that is sound remains so.                                          *)
LEMMA SoundStays == ASSUME StoreKeeps, NEW job \in Job, Sound(job) PROVE Sound(job)'
  BY DEF Job, Sound, StoreKeeps

(* It is enough to look at the jobs that change.                            *)
LEMMA JobsStaySound ==
    ASSUME TypeOK, HitsAreFindable, StoreKeeps,
           \A w \in Workers : work'[w] = work[w] \/ Sound(work[w])'
    PROVE  HitsAreFindable'
<1> SUFFICES ASSUME NEW w \in Workers, work'[w] = work[w] PROVE Sound(work[w])'
  BY DEF HitsAreFindable
<1>1. work[w] \in Job /\ Sound(work[w])
  BY DEF TypeOK, HitsAreFindable, Job
<1>2. \A job \in Job : Sound(job) => Sound(job)'
  BY SoundStays
<1> QED  BY <1>1, <1>2 DEF Sound

(* Steps that change no worker.                                             *)
LEMMA WorldKeeps ==
    ASSUME DiscoveryInv, StoreKeeps, UNCHANGED <<work, reported>>, TypeOK'
    PROVE  DiscoveryInv'
<1>1. ReportedAreStored'
  BY ReportsStay DEF DiscoveryInv
<1>2. HitsAreFindable'
  BY JobsStaySound DEF DiscoveryInv
<1> QED  BY <1>1, <1>2 DEF DiscoveryInv

LEMMA VenuesKeep ==
    ASSUME DiscoveryInv, Tick \/ DeleteOldPoints \/ \E m \in Markets : Create(m) \/ Close(m) \/ Outlive(m)
    PROVE  DiscoveryInv'
<1>1. UNCHANGED <<work, reported, passedOver, window, inline>>
  BY DEF Tick, DeleteOldPoints, Create, Close, Outlive
<1>2. /\ now \in Start..MaxTime /\ created \in [Markets -> 0..MaxTime]
      /\ closed \subseteq Markets /\ announced \subseteq Markets
      /\ store \in [Markets -> 0..MaxTime] /\ overdue \subseteq Markets
  BY DEF DiscoveryInv, TypeOK
<1>3. /\ now' \in Start..MaxTime /\ created' \in [Markets -> 0..MaxTime]
      /\ closed' \subseteq Markets /\ announced' \subseteq Markets
      /\ store' \in [Markets -> 0..MaxTime] /\ overdue' \subseteq Markets
      /\ StoreKeeps
  <2>1. CASE Tick
    <3>1. now < MaxTime /\ now' = now + 1 /\ UNCHANGED <<created, closed, announced, store, overdue>>
      BY <2>1 DEF Tick
    <3>2. now' \in Start..MaxTime
      BY <1>2, <3>1
    <3> QED  BY <1>2, <3>1, <3>2 DEF StoreKeeps, Findable
  <2>2. CASE DeleteOldPoints
    <3>1. /\ UNCHANGED <<now, created, closed, announced, overdue>>
          /\ store' = [m \in Markets |-> IF m \in overdue THEN 0 ELSE store[m]]
      BY <2>2 DEF DeleteOldPoints, world
    <3>2. store' \in [Markets -> 0..MaxTime]
      BY <1>2, <3>1
    <3> QED  BY <1>2, <3>1, <3>2 DEF StoreKeeps, Findable
  <2>3. CASE \E m \in Markets : Create(m)
    <3>1. PICK m \in Markets :
            /\ created' = [created EXCEPT ![m] = now]
            /\ announced' \in {announced, announced \cup {m}}
            /\ UNCHANGED <<now, closed, store, overdue>>
      BY <2>3 DEF Create
    <3>2. created' \in [Markets -> 0..MaxTime] /\ announced' \subseteq Markets
      BY <1>2, <3>1
    <3> QED  BY <1>2, <3>1, <3>2 DEF StoreKeeps, Findable
  <2>4. CASE \E m \in Markets : Close(m)
    BY <1>2, <2>4 DEF Close, StoreKeeps, Findable
  <2>5. CASE \E m \in Markets : Outlive(m)
    BY <1>2, <2>5 DEF Outlive, world, StoreKeeps, Findable
  <2> QED  BY <2>1, <2>2, <2>3, <2>4, <2>5
<1>4. upset' \subseteq Upsets
  <2>1. {"slow", "live", "overdue"} \subseteq Upsets
    BY DEF Upsets
  <2> QED  BY <2>1, UpsetTyped DEF Tick, DeleteOldPoints, Create, Close, Outlive, DiscoveryInv, TypeOK
<1>5. TypeOK'
  BY <1>1, <1>3, <1>4 DEF DiscoveryInv, TypeOK
<1> QED  BY <1>1, <1>3, <1>5, WorldKeeps
-------------------------------------------------------------------------------
(* A backfill begins, or the bot starts again.                              *)
LEMMA StartKeeps ==
    ASSUME DiscoveryInv,
           Restart \/ \E p \in Platforms : ReadWatermark(p) \/ BackfillAgain(p)
    PROVE  DiscoveryInv'
<1> DEFINE fetching == [Idle EXCEPT !.at = "fetch"]
<1>1. 0 \in 0..MaxTime
  OBVIOUS
<1>2. /\ Idle \in Job /\ fetching \in Job
      /\ Idle.at = "off" /\ fetching.at = "fetch" /\ Idle.hits = {} /\ fetching.hits = {}
  BY <1>1 DEF Idle, Job
<1>3. work \in [Workers -> Job]
  BY DEF DiscoveryInv, TypeOK, Job
<1>4. /\ UNCHANGED <<world, store, overdue, reported>> /\ announced' \subseteq Markets
      /\ \A w \in Workers : work'[w] \in {work[w], Idle, fetching}
      /\ work' \in [Workers -> Job]
  <2>1. CASE Restart
    BY <1>2, <2>1 DEF Restart
  <2>2. CASE \E p \in Platforms : ReadWatermark(p) \/ BackfillAgain(p)
    <3>1. PICK p \in Platforms : ReadWatermark(p) \/ BackfillAgain(p)
      BY <2>2
    <3>2. /\ UNCHANGED <<world, store, overdue, reported, announced>>
          /\ work' = [w \in Workers |-> IF w \in Backfills(p) THEN fetching ELSE work[w]]
      BY <3>1 DEF ReadWatermark, BackfillAgain, StartFetching
    <3> QED  BY <1>2, <1>3, <3>2 DEF DiscoveryInv, TypeOK
  <2> QED  BY <2>1, <2>2
<1> HIDE DEF fetching
<1>5. StoreKeeps
  BY <1>4 DEF StoreKeeps, Findable, world
<1>6. HitsAreFindable'
  <2>1. \A w \in Workers : work'[w] = work[w] \/ Sound(work[w])'
    BY <1>2, <1>4 DEF Sound
  <2> QED  BY <1>5, <2>1, JobsStaySound DEF DiscoveryInv
<1>7. ReportedAreStored'
  BY <1>4, <1>5, ReportsStay DEF DiscoveryInv
<1>8. window' \in [Platforms -> 0..MaxTime] /\ inline' \in [Platforms -> BOOLEAN]
  <2>1. CASE Restart
    BY <1>1, <2>1 DEF Restart
  <2>2. CASE \E p \in Platforms : ReadWatermark(p)
    <3>1. now - Reach \in 0..MaxTime
      BY DEF DiscoveryInv, TypeOK
    <3> QED  BY <2>2, <3>1, LastInsertIsTime DEF ReadWatermark, DiscoveryInv, TypeOK
  <2>3. CASE \E p \in Platforms : BackfillAgain(p)
    <3>1. now - 1 \in 0..MaxTime
      BY DEF DiscoveryInv, TypeOK
    <3> QED  BY <2>3, <3>1 DEF BackfillAgain, DiscoveryInv, TypeOK
  <2> QED  BY <2>1, <2>2, <2>3
<1>9. upset' \subseteq Upsets
  <2>1. {"crash", "restart"} \subseteq Upsets
    BY DEF Upsets
  <2> QED  BY <2>1, UpsetTyped DEF Restart, ReadWatermark, BackfillAgain, DiscoveryInv, TypeOK
<1>10. passedOver' \subseteq Markets
  BY DEF Restart, ReadWatermark, BackfillAgain, Before, DiscoveryInv, TypeOK
<1>11. TypeOK'
  BY <1>4, <1>8, <1>9, <1>10 DEF DiscoveryInv, TypeOK, Job, world
<1> QED  BY <1>6, <1>7, <1>11 DEF DiscoveryInv

(* A worker gets its markets, or none.                                      *)
LEMMA GetKeeps ==
    ASSUME DiscoveryInv,
           \/ \E p \in Platforms, t \in Tags : Fetch(p, t)
           \/ \E m \in Markets : Announcement(m)
    PROVE  DiscoveryInv'
<1>1. /\ now \in Start..MaxTime /\ 0 \in 0..MaxTime /\ now \in 0..MaxTime /\ now # 0
      /\ work \in [Workers -> Job]
  BY DEF DiscoveryInv, TypeOK, Job
<1>2. PICK w \in Workers, got \in SUBSET Markets :
         \/ work' = [work EXCEPT ![w] = [at |-> "search", got |-> got, stamp |-> now, hits |-> {}]]
         \/ work' = [work EXCEPT ![w] = [Idle EXCEPT !.at = "done", !.stamp = now]]
         \/ work' = work
  <2>1. CASE \E p \in Platforms, t \in Tags : Fetch(p, t)
    <3>1. PICK p \in Platforms, t \in Tags : Fetch(p, t)
      BY <2>1
    <3>2. <<p, t>> \in Workers /\ Listed(p, t) \subseteq Markets
      BY DEF Workers, Listed
    <3> QED  BY <3>1, <3>2 DEF Fetch, Validated, Begin
  <2>2. CASE \E m \in Markets : Announcement(m)
    <3>1. PICK m \in Markets : Announcement(m)
      BY <2>2
    <3>2. <<PlatformOf[m], Live>> \in Workers /\ {m} \subseteq Markets
      BY DEF Workers
    <3> QED  BY <3>1, <3>2 DEF Announcement, Begin
  <2> QED  BY <2>1, <2>2
<1>3. UNCHANGED <<now, created, closed, store, overdue, window, inline, reported>>
  BY DEF Fetch, Announcement, world
<1>4. announced' \subseteq Markets /\ passedOver' \subseteq Markets
  BY DEF Fetch, Announcement, Listed, DiscoveryInv, TypeOK
<1>5. upset' \subseteq Upsets
  BY DEF Upsets, UpsetBy, Fetch, Announcement, DiscoveryInv, TypeOK
<1>6. \/ work' = work
      \/ \E job \in Job : /\ work' = [work EXCEPT ![w] = job]
                          /\ job.stamp # 0 /\ job.at \in {"search", "done"} /\ job.hits = {}
  <2>1. /\ [at |-> "search", got |-> got, stamp |-> now, hits |-> {}] \in Job
        /\ [Idle EXCEPT !.at = "done", !.stamp = now] \in Job
    BY <1>1 DEF Job, Idle
  <2> QED  BY <1>1, <1>2, <2>1 DEF Idle
<1>7. work' \in [Workers -> Job]
  BY <1>1, <1>6
<1>8. TypeOK'
  BY <1>3, <1>4, <1>5, <1>7 DEF DiscoveryInv, TypeOK, Job
<1>9. StoreKeeps
  BY <1>3 DEF StoreKeeps, Findable
<1>10. HitsAreFindable'
  <2>1. \A v \in Workers : work'[v] = work[v] \/ Sound(work[v])'
    BY <1>1, <1>6 DEF Sound
  <2> QED  BY <1>9, <2>1, JobsStaySound DEF DiscoveryInv
<1>11. ReportedAreStored'
  BY <1>3, <1>9, ReportsStay DEF DiscoveryInv
<1> QED  BY <1>8, <1>10, <1>11 DEF DiscoveryInv

-------------------------------------------------------------------------------
(* The end of a worker.                                                     *)
LEMMA DoneJob ==
    ASSUME TypeOK, NEW w \in Workers, Done(w)
    PROVE  \E job \in Job : /\ work' = [work EXCEPT ![w] = job]
                             /\ job.at = "done" /\ job.hits = {}
<1>1. work[w].stamp \in 0..MaxTime /\ 0 \in 0..MaxTime
  BY DEF TypeOK
<1> DEFINE job == [at |-> "done", got |-> {}, hits |-> {},
                   stamp |-> IF w[2] = Live THEN 0 ELSE work[w].stamp]
<1>2. job \in Job
  BY <1>1 DEF Job
<1> QED  BY <1>2 DEF Done

(* What a search does, and what it upsets.                                  *)
LEMMA SearchStep ==
    ASSUME NEW w \in Workers, Search(w)
    PROVE  /\ work[w].at = "search"
           /\ upset \subseteq upset' /\ upset' \subseteq upset \cup {"race", "crowd", "error"}
           /\ \/ "error" \in upset' /\ Done(w)
              \/ \E hits \in SUBSET Hits(work[w].got) :
                   /\ "race" \in upset' \/ \A v \in Workers : work[v].at # "insert"
                   /\ "crowd" \in upset' \/ hits = Hits(work[w].got)
                   /\ \/ w[2] = Live /\ hits = {} /\ Done(w)
                      \/ work' = [work EXCEPT ![w].at = "insert", ![w].hits = hits]
<1>1. CASE Fails(w)
  BY <1>1 DEF Search, Fails, Upset, UpsetBy
<1>2. ASSUME NEW hits \in Best(work[w].got),
             IF w[2] = Live /\ hits = {} THEN Done(w)
             ELSE work' = [work EXCEPT ![w].at = "insert", ![w].hits = hits],
             UpsetBy({kind \in {"race", "crowd"} :
                        IF kind = "race" THEN \E v \in Workers : work[v].at = "insert"
                        ELSE hits # Hits(work[w].got)})
      PROVE  /\ upset \subseteq upset' /\ upset' \subseteq upset \cup {"race", "crowd"}
             /\ hits \in SUBSET Hits(work[w].got)
             /\ "race" \in upset' \/ \A v \in Workers : work[v].at # "insert"
             /\ "crowd" \in upset' \/ hits = Hits(work[w].got)
             /\ \/ w[2] = Live /\ hits = {} /\ Done(w)
                \/ work' = [work EXCEPT ![w].at = "insert", ![w].hits = hits]
  BY <1>2 DEF UpsetBy, Best
<1>. QED
  BY <1>1, <1>2 DEF Search

LEMMA SearchKeeps == ASSUME DiscoveryInv, NEW w \in Workers, Search(w) PROVE DiscoveryInv'
<1>1. work \in [Workers -> Job] /\ work[w] \in Job /\ Sound(work[w])
  BY DEF DiscoveryInv, TypeOK, Job, HitsAreFindable
<1>2. UNCHANGED <<now, created, closed, announced, store, overdue, window, inline, reported,
                       passedOver>>
  BY DEF Search, world
<1>3. upset' \subseteq Upsets
  <2>1. {"race", "crowd", "error"} \subseteq Upsets
    BY DEF Upsets
  <2> QED  BY <2>1, SearchStep DEF DiscoveryInv, TypeOK
<1>4. PICK job \in Job : work' = [work EXCEPT ![w] = job] /\ Sound(job)
  <2>1. CASE Done(w)
    BY <2>1, DoneJob DEF Sound, DiscoveryInv
  <2>2. ASSUME NEW hits \in SUBSET Hits(work[w].got),
               work' = [work EXCEPT ![w].at = "insert", ![w].hits = hits]
        PROVE  \E job \in Job : work' = [work EXCEPT ![w] = job] /\ Sound(job)
    <3> DEFINE job == [work[w] EXCEPT !.at = "insert", !.hits = hits]
    <3>1. \A hit \in hits :
             hit \in Markets \X Markets /\ hit[1] \in work[w].got /\ Findable(hit[2])
      BY <1>1 DEF Hits, Job, Findable
    <3>2. work[w].at = "search"
      BY DEF Search
    <3>3. job \in Job /\ job.at = "insert" /\ job.stamp = work[w].stamp
          /\ job.got = work[w].got /\ job.hits = hits
      BY <1>1, <3>1 DEF Job
    <3>4. Sound(job)
      BY <1>1, <3>1, <3>2, <3>3 DEF Sound
    <3>5. work' = [work EXCEPT ![w] = job]
      BY <1>1, <2>2
    <3> QED  BY <3>3, <3>4, <3>5
  <2> QED  BY <2>1, <2>2, SearchStep
<1>5. TypeOK'
  BY <1>1, <1>2, <1>3, <1>4 DEF DiscoveryInv, TypeOK, Job
<1>6. StoreKeeps
  BY <1>2 DEF StoreKeeps, Findable
<1>7. HitsAreFindable'
  <2>1. \A v \in Workers : work'[v] = work[v] \/ Sound(work[v])'
    <3>1. Sound(job)'
      BY <1>4, <1>6, SoundStays
    <3> QED  BY <1>1, <1>4, <3>1 DEF Sound
  <2> QED  BY <1>6, <2>1, JobsStaySound DEF DiscoveryInv
<1>8. ReportedAreStored'
  BY <1>2, <1>6, ReportsStay DEF DiscoveryInv
<1> QED  BY <1>5, <1>7, <1>8 DEF DiscoveryInv

(* Here the first halves of the hits get their points.                      *)
LEMMA InsertKeeps == ASSUME DiscoveryInv, NEW w \in Workers, Insert(w) PROVE DiscoveryInv'
<1>1. /\ work \in [Workers -> Job] /\ work[w] \in Job /\ Sound(work[w])
      /\ store \in [Markets -> 0..MaxTime] /\ work[w].at = "insert"
  BY DEF DiscoveryInv, TypeOK, Job, HitsAreFindable, Insert
<1>2. /\ UNCHANGED <<now, created, closed, announced, window, inline, reported, passedOver>>
      /\ work[w].stamp \in 0..MaxTime /\ work[w].stamp # 0 /\ work[w].got \subseteq Markets
  BY <1>1 DEF Insert, world, Sound, Job
<1>3. upset' \subseteq Upsets
  <2>1. "error" \in Upsets
    BY DEF Upsets
  <2> QED  BY <2>1, UpsetTyped DEF Insert, Fails, DiscoveryInv, TypeOK
<1>4. PICK M \in SUBSET work[w].got : store' = Stored(M, w) /\ overdue' = overdue \ M
  BY DEF Insert, Upsert
<1>5. /\ StoreKeeps /\ store' \in [Markets -> 0..MaxTime] /\ \A m \in M : store'[m] # 0
      /\ overdue' \subseteq overdue
  BY <1>1, <1>2, <1>4 DEF StoreKeeps, Findable, Stored
<1>6. PICK job \in Job : work' = [work EXCEPT ![w] = job] /\ Sound(job)'
  <2>1. CASE Done(w)
    BY <2>1, DoneJob DEF Sound, DiscoveryInv
  <2>2. CASE store' = Stored(work[w].got, w) /\ work' = [work EXCEPT ![w].at = "send"]
    <3> DEFINE job == [work[w] EXCEPT !.at = "send"]
    <3>1. /\ job \in Job /\ job.at = "send" /\ job.stamp = work[w].stamp
          /\ job.got = work[w].got /\ job.hits = work[w].hits
      BY <1>1 DEF Job
    <3>2. \A m \in work[w].got : store'[m] # 0
      BY <1>1, <1>2, <2>2 DEF Stored
    <3>3. \A hit \in work[w].hits : hit[1] \in work[w].got /\ Findable(hit[2])'
      BY <1>1, <1>5 DEF Sound, StoreKeeps, Job
    <3>4. \E r \in Job : /\ r = job /\ r.stamp # 0 /\ r.at = "send"
                         /\ \A m \in r.got : Findable(m)'
                         /\ \A hit \in r.hits : hit[1] \in r.got /\ Findable(hit[2])'
      BY <1>2, <3>1, <3>2, <3>3 DEF Findable
    <3>5. work' = [work EXCEPT ![w] = job]
      BY <1>1, <2>2
    <3> HIDE DEF job
    <3> QED  BY <3>4, <3>5 DEF Sound
  <2> QED  BY <2>1, <2>2 DEF Insert, Upsert, Fails
<1>7. TypeOK'
  BY <1>1, <1>2, <1>3, <1>5, <1>6 DEF DiscoveryInv, TypeOK, Job
<1>8. HitsAreFindable'
  <2>1. \A v \in Workers : work'[v] = work[v] \/ Sound(work[v])'
    BY <1>1, <1>6 DEF Sound
  <2> QED  BY <1>5, <2>1, JobsStaySound DEF DiscoveryInv
<1>9. ReportedAreStored'
  BY <1>2, <1>5, ReportsStay DEF DiscoveryInv
<1> QED  BY <1>7, <1>8, <1>9 DEF DiscoveryInv

(* What is sent is findable already.                                        *)
LEMMA SendKeeps == ASSUME DiscoveryInv, NEW w \in Workers, Send(w) PROVE DiscoveryInv'
<1>1. /\ work \in [Workers -> Job] /\ work[w] \in Job /\ Sound(work[w])
      /\ work[w].at = "send"
  BY DEF DiscoveryInv, TypeOK, Job, HitsAreFindable, Send
<1>2. UNCHANGED <<now, created, closed, announced, store, overdue, window, inline, passedOver,
                       upset>>
  BY DEF Send, world
<1>3. StoreKeeps
  BY <1>2 DEF StoreKeeps, Findable
<1>4. PICK ebo \in SUBSET work[w].hits : reported' = reported \cup ebo
  BY DEF Send, Of
<1>5. /\ reported' \subseteq Markets \X Markets
      /\ \A hit \in ebo : Findable(hit[1]) /\ Findable(hit[2])
  BY <1>1, <1>4 DEF DiscoveryInv, TypeOK, Job, Sound
<1>6. PICK job \in Job : work' = [work EXCEPT ![w] = job] /\ Sound(job)
  <2>1. CASE Done(w)
    BY <2>1, DoneJob DEF Sound, DiscoveryInv
  <2>2. CASE \E C : work' = [work EXCEPT ![w].hits = @ \ C]
    <3>1. PICK C : work' = [work EXCEPT ![w].hits = @ \ C]
      BY <2>2
    <3> DEFINE job == [work[w] EXCEPT !.hits = @ \ C]
    <3>2. /\ job \in Job /\ job.at = "send" /\ job.stamp = work[w].stamp
          /\ job.got = work[w].got /\ job.hits \subseteq work[w].hits
      BY <1>1 DEF Job
    <3>3. Sound(job)
      BY <1>1, <3>2 DEF Sound
    <3>4. work' = [work EXCEPT ![w] = job]
      BY <1>1, <3>1
    <3> QED  BY <3>2, <3>3, <3>4
  <2> QED  BY <2>1, <2>2 DEF Send
<1>7. TypeOK'
  BY <1>1, <1>2, <1>5, <1>6 DEF DiscoveryInv, TypeOK, Job
<1>8. HitsAreFindable'
  <2>1. \A v \in Workers : work'[v] = work[v] \/ Sound(work[v])'
    <3>1. Sound(job)'
      BY <1>3, <1>6, SoundStays
    <3> QED  BY <1>1, <1>6, <3>1 DEF Sound
  <2> QED  BY <1>3, <2>1, JobsStaySound DEF DiscoveryInv
<1>9. ReportedAreStored'
  BY <1>2, <1>4, <1>5 DEF ReportedAreStored, Findable, DiscoveryInv
<1> QED  BY <1>7, <1>8, <1>9 DEF DiscoveryInv

-------------------------------------------------------------------------------
LEMMA DiscoveryInvIsInvariant == Spec => []DiscoveryInv
<1>1. DiscoveryInv /\ [Next]_vars => DiscoveryInv'
  <2> SUFFICES ASSUME DiscoveryInv, [Next]_vars PROVE DiscoveryInv'  OBVIOUS
  <2>1. CASE UNCHANGED vars
    BY <2>1 DEF vars, world, DiscoveryInv, TypeOK, ReportedAreStored, HitsAreFindable, Sound, Findable
  <2>2. CASE Tick \/ DeleteOldPoints \/ \E m \in Markets : Create(m) \/ Close(m) \/ Outlive(m)
    BY <2>2, VenuesKeep
  <2>3. CASE Restart \/ \E p \in Platforms : ReadWatermark(p) \/ BackfillAgain(p)
    BY <2>3, StartKeeps
  <2>4. CASE \/ \E p \in Platforms, t \in Tags : Fetch(p, t)
             \/ \E m \in Markets : Announcement(m)
    BY <2>4, GetKeeps
  <2>5. CASE \E w \in Workers : Work(w)
    BY <2>5, SearchKeeps, InsertKeeps, SendKeeps DEF Work
  <2> QED  BY <2>1, <2>2, <2>3, <2>4, <2>5 DEF Next
<1> QED  BY DiscoveryStarts, <1>1, PTL DEF Spec

(* The clock, the store, the workers and what was reported keep their       *)
(* types, and so does the window of a backfill, however far it goes back.   *)
THEOREM TypeCorrect == Spec => []TypeOK
<1>1. DiscoveryInv => TypeOK
  BY DEF DiscoveryInv
<1> QED  BY <1>1, DiscoveryInvIsInvariant, PTL

(* Both markets of every pair sent to the dashboard have their points as    *)
(* long as they are open, through races, failed insertions, crashes and     *)
(* the cleaner.                                                             *)
THEOREM ReportedStayStored == Spec => []ReportedAreStored
<1>1. DiscoveryInv => ReportedAreStored
  BY DEF DiscoveryInv
<1> QED  BY <1>1, DiscoveryInvIsInvariant, PTL

-------------------------------------------------------------------------------
(* An upset is never forgotten.                                             *)
LEMMA UpsetsGrow == [Next]_vars => upset \subseteq upset'
<1> SUFFICES ASSUME [Next]_vars PROVE upset \subseteq upset'
  OBVIOUS
<1>1. CASE UNCHANGED vars
  BY <1>1 DEF vars
<1>2. CASE Tick \/ DeleteOldPoints \/ Restart
  BY <1>2 DEF Tick, DeleteOldPoints, Restart, Upset, UpsetBy, UpsetIf
<1>3. CASE \E m \in Markets : Create(m) \/ Close(m) \/ Outlive(m) \/ Announcement(m)
  BY <1>3 DEF Create, Close, Outlive, Announcement, Upset, UpsetBy, UpsetIf
<1>4. CASE \E p \in Platforms :
              ReadWatermark(p) \/ BackfillAgain(p) \/ \E t \in Tags : Fetch(p, t)
  BY <1>4 DEF ReadWatermark, BackfillAgain, Fetch, Upset, UpsetBy, UpsetIf
<1>5. CASE \E w \in Workers : Work(w)
  BY <1>5, SearchStep DEF Work, Insert, Send, Fails, Upset, UpsetBy
<1>. QED
  BY <1>1, <1>2, <1>3, <1>4, <1>5 DEF Next

(* A worker has markets of its platform only, and they get their points     *)
(* under the stamp of its job.                                              *)
OwnMarkets == \A w \in Workers : \A m \in work[w].got : PlatformOf[m] = w[1]

LEMMA DoneOwnsNothing ==
    ASSUME TypeOK, NEW w \in Workers, Done(w)
    PROVE  /\ work'[w].at = "done" /\ work'[w].got = {} /\ work'[w].hits = {}
           /\ w[2] # Live => work'[w].stamp = work[w].stamp
           /\ \A v \in Workers \ {w} : work'[v] = work[v]
BY DEF TypeOK, Done

(* What becomes of the jobs in a step of one worker, of the backfills of a  *)
(* platform, and of all.                                                    *)
LEMMA SearchJob ==
    ASSUME TypeOK, NEW w \in Workers, Search(w)
    PROVE  /\ work[w].at = "search"
           /\ \/ /\ work'[w].at = "done" /\ work'[w].got = {} /\ work'[w].hits = {}
                 /\ "error" \in upset' \/ w[2] = Live
              \/ /\ work'[w].at = "insert" /\ work'[w].got = work[w].got
                 /\ work'[w].stamp = work[w].stamp
                 /\ work'[w].hits \subseteq Hits(work[w].got)
                 /\ "race" \in upset' \/ \A v \in Workers : work[v].at # "insert"
                 /\ "crowd" \in upset' \/ work'[w].hits = Hits(work[w].got)
           /\ \A v \in Workers \ {w} : work'[v] = work[v]
           /\ UNCHANGED <<now, created, closed, announced, store, overdue, window, inline, reported,
                       passedOver>>
<1>1. UNCHANGED <<now, created, closed, announced, store, overdue, window, inline, reported,
                       passedOver>>
  BY DEF Search, world
<1>2. work[w].at = "search"
  BY DEF Search
<1>3. CASE Done(w) /\ ("error" \in upset' \/ w[2] = Live)
  BY <1>1, <1>2, <1>3, DoneOwnsNothing
<1>4. ASSUME NEW hits \in SUBSET Hits(work[w].got),
             "race" \in upset' \/ \A v \in Workers : work[v].at # "insert",
             "crowd" \in upset' \/ hits = Hits(work[w].got),
             work' = [work EXCEPT ![w].at = "insert", ![w].hits = hits]
      PROVE  /\ work'[w].at = "insert" /\ work'[w].got = work[w].got
             /\ work'[w].stamp = work[w].stamp /\ work'[w].hits = hits
             /\ \A v \in Workers \ {w} : work'[v] = work[v]
  BY <1>4 DEF TypeOK
<1>. QED
  BY <1>1, <1>2, <1>3, <1>4, SearchStep

LEMMA InsertJob ==
    ASSUME TypeOK, NEW w \in Workers, Insert(w)
    PROVE  /\ work[w].at = "insert"
           /\ \/ /\ "error" \in upset'
                 /\ work'[w].at = "done" /\ work'[w].got = {} /\ work'[w].hits = {}
              \/ /\ Upsert(work[w].got, w)
                 /\ work'[w].at = "send" /\ work'[w].got = work[w].got
                 /\ work'[w].stamp = work[w].stamp /\ work'[w].hits = work[w].hits
           /\ \A v \in Workers \ {w} : work'[v] = work[v]
           /\ UNCHANGED <<now, created, closed, announced, window, inline, reported, passedOver>>
<1>1. CASE Fails(w)
  BY <1>1, DoneOwnsNothing DEF Insert, Fails, Upset, UpsetBy, world
<1>2. CASE Upsert(work[w].got, w) /\ work' = [work EXCEPT ![w].at = "send"]
  BY <1>2 DEF TypeOK, Insert, world
<1>. QED
  BY <1>1, <1>2 DEF Insert

LEMMA SendJob ==
    ASSUME TypeOK, NEW w \in Workers, Send(w)
    PROVE  /\ work[w].at = "send"
           /\ \/ /\ work[w].hits = {} /\ UNCHANGED reported
                 /\ work'[w].at = "done" /\ work'[w].got = {} /\ work'[w].hits = {}
                 /\ w[2] # Live => work'[w].stamp = work[w].stamp
              \/ /\ work'[w].at = "send" /\ work'[w].got = work[w].got
                 /\ work'[w].stamp = work[w].stamp
                 /\ work[w].hits \subseteq work'[w].hits \cup reported'
                 /\ reported \subseteq reported'
           /\ \A v \in Workers \ {w} : work'[v] = work[v]
           /\ UNCHANGED <<now, created, closed, announced, store, overdue, window, inline, passedOver,
                       upset>>
<1>1. CASE work[w].hits = {} /\ Done(w) /\ UNCHANGED reported
  BY <1>1, DoneOwnsNothing DEF Send, world
<1>2. ASSUME NEW ebo, reported' = reported \cup ebo,
             work' = [work EXCEPT ![w].hits = @ \ ebo]
      PROVE  /\ work'[w].at = work[w].at /\ work'[w].got = work[w].got
             /\ work'[w].stamp = work[w].stamp
             /\ work[w].hits \subseteq work'[w].hits \cup reported'
             /\ reported \subseteq reported'
             /\ \A v \in Workers \ {w} : work'[v] = work[v]
  BY <1>2 DEF TypeOK
<1>. QED
  BY <1>1, <1>2 DEF Send, world

(* A worker that starts, or gets its markets, is at rest or fetches.        *)
LEMMA FreshJob ==
    ASSUME TypeOK,
           \/ Restart
           \/ \E p \in Platforms : ReadWatermark(p) \/ BackfillAgain(p)
    PROVE  \A w \in Workers :
             \/ work'[w] = work[w]
             \/ /\ work'[w].at \in {"off", "fetch"}
                /\ work'[w].got = {} /\ work'[w].hits = {}
                /\ "crash" \in upset' \/ AtRest(w)
<1>1. /\ Idle.at = "off" /\ Idle.got = {} /\ Idle.hits = {}
      /\ [Idle EXCEPT !.at = "fetch"].at = "fetch"
      /\ [Idle EXCEPT !.at = "fetch"].got = {} /\ [Idle EXCEPT !.at = "fetch"].hits = {}
  BY DEF Idle
<1>2. CASE Restart
  BY <1>1, <1>2 DEF Restart, Upset, UpsetBy
<1>3. ASSUME NEW p \in Platforms, ReadWatermark(p) \/ BackfillAgain(p)
      PROVE  /\ \A w \in Backfills(p) : AtRest(w)
             /\ work' = [w \in Workers |->
                           IF w \in Backfills(p) THEN [Idle EXCEPT !.at = "fetch"] ELSE work[w]]
  BY <1>3 DEF ReadWatermark, BackfillAgain, StartFetching, AtRest
<1>. QED
  BY <1>1, <1>2, <1>3

LEMMA GetJob ==
    ASSUME TypeOK,
           \/ \E p \in Platforms, t \in Tags : Fetch(p, t)
           \/ \E m \in Markets : Announcement(m)
    PROVE  \/ UNCHANGED work
           \/ \E w \in Workers :
                /\ work[w].at = "fetch" \/ (w[2] = Live /\ AtRest(w))
                /\ work'[w].at \in {"search", "done"}
                /\ work'[w].hits = {} /\ \A m \in work'[w].got : PlatformOf[m] = w[1]
                /\ \A v \in Workers \ {w} : work'[v] = work[v]
<1>1. ASSUME NEW p \in Platforms, NEW t \in Tags, Fetch(p, t)
      PROVE  /\ <<p, t>> \in Workers /\ work[<<p, t>>].at = "fetch"
             /\ work'[<<p, t>>].at \in {"search", "done"} /\ work'[<<p, t>>].hits = {}
             /\ \A m \in work'[<<p, t>>].got : PlatformOf[m] = p
             /\ \A v \in Workers \ {<<p, t>>} : work'[v] = work[v]
  <2>1. <<p, t>> \in Workers
    BY DEF Workers
  <2>2. work[<<p, t>>].at = "fetch"
    BY <1>1 DEF Fetch
  <2>3. PICK got \in SUBSET Listed(p, t) :
            \/ work' = [work EXCEPT ![<<p, t>>] = [Idle EXCEPT !.at = "done", !.stamp = now]]
            \/ Begin(<<p, t>>, got)
    BY <1>1 DEF Fetch, Validated
  <2>4. CASE work' = [work EXCEPT ![<<p, t>>] = [Idle EXCEPT !.at = "done", !.stamp = now]]
    BY <2>1, <2>2, <2>4 DEF TypeOK, Idle
  <2>5. CASE Begin(<<p, t>>, got)
    BY <2>1, <2>2, <2>5 DEF TypeOK, Begin, Listed
  <2>. QED
    BY <2>3, <2>4, <2>5
<1>2. ASSUME NEW m \in Markets, Announcement(m), work' # work
      PROVE  \E w \in Workers :
               /\ w[2] = Live /\ AtRest(w)
               /\ work'[w].at = "search" /\ work'[w].hits = {}
               /\ \A n \in work'[w].got : PlatformOf[n] = w[1]
               /\ \A v \in Workers \ {w} : work'[v] = work[v]
  <2>. DEFINE w == <<PlatformOf[m], Live>>
  <2>1. w \in Workers /\ w[1] = PlatformOf[m] /\ w[2] = Live
    BY DEF Workers
  <2>2. AtRest(w) /\ work' = [work EXCEPT ![w] = [at |-> "search", got |-> {m}, stamp |-> now, hits |-> {}]]
    BY <1>2 DEF Announcement, Begin
  <2>. HIDE DEF w
  <2>. QED
    BY <2>1, <2>2 DEF TypeOK
<1>3. CASE \E p \in Platforms, t \in Tags : Fetch(p, t)
  <2>1. PICK p \in Platforms, t \in Tags : Fetch(p, t)
    BY <1>3
  <2>. DEFINE w == <<p, t>>
  <2>2. /\ w \in Workers /\ work[w].at = "fetch"
        /\ work'[w].at \in {"search", "done"} /\ work'[w].hits = {}
        /\ \A m \in work'[w].got : PlatformOf[m] = p
        /\ \A v \in Workers \ {w} : work'[v] = work[v]
    BY <1>1, <2>1
  <2>3. w[1] = p
    OBVIOUS
  <2>. QED
    BY <2>2, <2>3
<1>. QED
  BY <1>2, <1>3

LEMMA OwnMarketsKept == TypeOK /\ OwnMarkets /\ [Next]_vars => OwnMarkets'
<1> SUFFICES ASSUME TypeOK, OwnMarkets, [Next]_vars PROVE OwnMarkets'
  OBVIOUS
<1>1. CASE \/ UNCHANGED vars \/ Tick \/ DeleteOldPoints
           \/ \E m \in Markets : Create(m) \/ Close(m) \/ Outlive(m)
  BY <1>1 DEF vars, Tick, DeleteOldPoints, Create, Close, Outlive, OwnMarkets
<1>2. CASE Restart \/ \E p \in Platforms : ReadWatermark(p) \/ BackfillAgain(p)
  BY <1>2, FreshJob DEF OwnMarkets
<1>3. CASE \/ \E p \in Platforms, t \in Tags : Fetch(p, t)
           \/ \E m \in Markets : Announcement(m)
  BY <1>3, GetJob DEF OwnMarkets
<1>4. ASSUME NEW w \in Workers, Work(w) PROVE OwnMarkets'
  <2>1. work'[w].got \in {{}, work[w].got} /\ \A v \in Workers \ {w} : work'[v] = work[v]
    BY <1>4, SearchJob, InsertJob, SendJob DEF Work
  <2>. QED
    BY <2>1 DEF OwnMarkets
<1>. QED
  BY <1>1, <1>2, <1>3, <1>4 DEF Next

-------------------------------------------------------------------------------
(* Without a race one worker at a time is between its search and its        *)
(* insertion, so that it has all the hits there are.                        *)
OneInsertion ==
    \A v, w \in Workers : work[v].at = "insert" /\ work[w].at = "insert" => v = w

AllFound ==
    \A w \in Workers : work[w].at = "insert" =>
        \A m \in work[w].got, n \in Markets :
            store[n] # 0 /\ Pair(m, n) => <<m, n>> \in work[w].hits

AllReported == \A m, n \in Markets : Reported(m, n)

PairsInv == OneInsertion /\ AllFound /\ AllReported

Orderly == upset \subseteq {"live", "restart", "slow", "page", "refused", "overdue"}

(* A step that inserts nothing, and drops no hit.                           *)
NothingLost ==
    /\ \A m \in Markets : store'[m] # 0 => store[m] # 0
    /\ reported \subseteq reported'
    /\ \A w \in Workers :
          /\ work'[w].at = "insert" => work'[w] = work[w]
          /\ work[w].hits \subseteq work'[w].hits \cup reported'

LEMMA PairIsSymmetric ==
    ASSUME NEW m \in Markets, NEW n \in Markets, Pair(m, n)
    PROVE  Pair(n, m)
BY DEF Pair

LEMMA NothingLostKeepsPairs == ASSUME TypeOK, OwnMarkets, PairsInv, NothingLost PROVE PairsInv'
<1>1. OneInsertion'
  BY DEF PairsInv, OneInsertion, NothingLost
<1>2. AllFound'
  <2> SUFFICES ASSUME NEW w \in Workers, work'[w].at = "insert",
                      NEW m \in work'[w].got, NEW n \in Markets, store'[n] # 0, Pair(m, n)
               PROVE  <<m, n>> \in work'[w].hits
    BY DEF AllFound, Pair
  <2>. QED
    BY DEF PairsInv, AllFound, NothingLost
<1>3. AllReported'
  <2> SUFFICES ASSUME NEW m \in Markets, NEW n \in Markets, Pair(m, n), store'[m] # 0, store'[n] # 0
               PROVE  Known(m, n)' \/ Sending(m, n)'
    BY DEF AllReported, Reported, Pair
  <2>1. Known(m, n) \/ Sending(m, n)
    BY DEF PairsInv, AllReported, Reported, NothingLost
  <2>. QED
    BY <2>1 DEF Known, Sending, NothingLost
<1>. QED
  BY <1>1, <1>2, <1>3 DEF PairsInv

LEMMA SearchKeepsPairs ==
    ASSUME TypeOK, HitsAreFindable, OwnMarkets, PairsInv, Orderly',
           NEW w \in Workers, Search(w)
    PROVE  PairsInv'
<1>1. /\ work[w].at = "search" /\ \A v \in Workers \ {w} : work'[v] = work[v]
      /\ UNCHANGED <<store, reported>>
  BY SearchJob
<1>2. work[w].hits = {}
  BY <1>1 DEF HitsAreFindable, Sound
<1>3. CASE work'[w].at = "done"
  <2>1. NothingLost
    BY <1>1, <1>2, <1>3 DEF NothingLost
  <2>. QED
    BY <2>1, NothingLostKeepsPairs
<1>4. CASE work'[w].at # "done"
  <2>1. /\ work'[w].at = "insert" /\ work'[w].got = work[w].got
        /\ work'[w].hits = Hits(work[w].got)
        /\ \A v \in Workers : work[v].at # "insert"
    BY <1>4, SearchJob DEF Orderly
  <2>2. \A v \in Workers : work'[v].at = "insert" => v = w
    BY <1>1, <2>1
  <2>3. OneInsertion'
    BY <2>2 DEF OneInsertion
  <2>4. AllFound'
    <3> SUFFICES ASSUME NEW m \in work[w].got, NEW n \in Markets, store[n] # 0, Pair(m, n)
                 PROVE  <<m, n>> \in Hits(work[w].got)
      BY <1>1, <2>1, <2>2 DEF AllFound, Pair
    <3>. QED
      BY DEF Hits, Pair
  <2>5. AllReported'
    <3> SUFFICES ASSUME NEW m \in Markets, NEW n \in Markets, Pair(m, n), store[m] # 0, store[n] # 0
                 PROVE  Known(m, n)' \/ Sending(m, n)'
      BY <1>1 DEF AllReported, Reported, Pair
    <3>1. Known(m, n) \/ Sending(m, n)
      BY DEF PairsInv, AllReported, Reported
    <3>. QED
      BY <1>1, <1>2, <3>1 DEF Known, Sending
  <2>. QED
    BY <2>3, <2>4, <2>5 DEF PairsInv
<1>. QED
  BY <1>3, <1>4

(* Of a pair of which the second market gets its point here, the worker has *)
(* the hit in hand.                                                         *)
LEMMA InsertKeepsPairs ==
    ASSUME TypeOK, OwnMarkets, PairsInv, Orderly', NEW w \in Workers, Insert(w)
    PROVE  PairsInv'
<1>1. /\ work[w].at = "insert" /\ store' = Stored(work[w].got, w)
      /\ work'[w].at = "send" /\ work'[w].got = work[w].got /\ work'[w].hits = work[w].hits
      /\ \A v \in Workers \ {w} : work'[v] = work[v]
      /\ UNCHANGED reported
  BY InsertJob DEF Orderly, Upsert
<1>2. \A v \in Workers : work'[v].at # "insert"
  BY <1>1 DEF PairsInv, OneInsertion
<1>3. OneInsertion' /\ AllFound'
  BY <1>2 DEF OneInsertion, AllFound
<1>4. \A m \in Markets : store'[m] # 0 => store[m] # 0 \/ m \in work[w].got
  BY <1>1 DEF Stored
<1>5. \A m, n \in Markets : Sending(m, n) => Sending(m, n)'
  BY <1>1 DEF Sending
<1>6. ASSUME NEW m \in work[w].got, NEW n \in Markets, Pair(m, n), store'[n] # 0
      PROVE  Sending(m, n)' /\ Sending(n, m)'
  <2>1. m \in Markets
    BY DEF TypeOK
  <2>2. n \notin work[w].got
    BY <1>6, <2>1 DEF OwnMarkets, Pair
  <2>3. <<m, n>> \in work[w].hits
    BY <1>1, <1>4, <1>6, <2>2 DEF PairsInv, AllFound
  <2>. QED
    BY <1>1, <2>3 DEF Sending
<1>7. AllReported'
  <2> SUFFICES ASSUME NEW m \in Markets, NEW n \in Markets, Pair(m, n), store'[m] # 0, store'[n] # 0
               PROVE  Known(m, n)' \/ Sending(m, n)'
    BY DEF AllReported, Reported, Pair
  <2>1. CASE m \in work[w].got
    BY <1>6, <2>1
  <2>2. CASE n \in work[w].got
    BY <1>6, <2>2, PairIsSymmetric
  <2>3. CASE m \notin work[w].got /\ n \notin work[w].got
    <3>1. Known(m, n) \/ Sending(m, n)
      BY <1>4, <2>3 DEF PairsInv, AllReported, Reported
    <3>. QED
      BY <1>1, <1>5, <3>1 DEF Known
  <2>. QED
    BY <2>1, <2>2, <2>3
<1>. QED
  BY <1>3, <1>7 DEF PairsInv

LEMMA OthersLoseNothing ==
    ASSUME TypeOK, HitsAreFindable, Orderly',
           \/ UNCHANGED vars \/ Tick \/ DeleteOldPoints \/ Restart
           \/ \E m \in Markets : Create(m) \/ Close(m) \/ Outlive(m) \/ Announcement(m)
           \/ \E p \in Platforms :
                 ReadWatermark(p) \/ BackfillAgain(p) \/ \E t \in Tags : Fetch(p, t)
           \/ \E w \in Workers : Send(w)
    PROVE  NothingLost
<1>1. \A w \in Workers : work[w].at \notin {"insert", "send"} => work[w].hits = {}
  BY DEF HitsAreFindable, Sound
<1>2. CASE \/ UNCHANGED vars \/ Tick \/ DeleteOldPoints
           \/ \E m \in Markets : Create(m) \/ Close(m) \/ Outlive(m)
  BY <1>2 DEF vars, world, Tick, DeleteOldPoints, Create, Close, Outlive, NothingLost
<1>3. CASE Restart \/ \E p \in Platforms : ReadWatermark(p) \/ BackfillAgain(p)
  <2>1. UNCHANGED <<store, reported>>
    BY <1>3 DEF Restart, ReadWatermark, BackfillAgain
  <2>2. \A w \in Workers :
          work'[w] = work[w] \/ (work'[w].at \in {"off", "fetch"} /\ AtRest(w))
    BY <1>3, FreshJob DEF Orderly
  <2>. QED
    BY <1>1, <2>1, <2>2 DEF NothingLost, AtRest
<1>4. CASE \/ \E p \in Platforms, t \in Tags : Fetch(p, t)
           \/ \E m \in Markets : Announcement(m)
  <2>1. UNCHANGED <<store, reported>>
    BY <1>4 DEF Fetch, Announcement
  <2>2. \A w \in Workers :
          \/ work'[w] = work[w]
          \/ work'[w].at \in {"search", "done"} /\ work[w].at \in {"fetch", "off", "done"}
    BY <1>4, GetJob DEF AtRest
  <2>. QED
    BY <1>1, <2>1, <2>2 DEF NothingLost
<1>5. ASSUME NEW w \in Workers, Send(w) PROVE NothingLost
  BY <1>5, SendJob DEF NothingLost
<1>. QED
  BY <1>2, <1>3, <1>4, <1>5

LEMMA PairsInvariant == Spec => [](OwnMarkets /\ (Orderly => PairsInv))
<1>1. Init => OwnMarkets /\ PairsInv
  <2> SUFFICES ASSUME Init PROVE OwnMarkets /\ PairsInv
    OBVIOUS
  <2>1. \A w \in Workers : work[w].at = "off" /\ work[w].got = {}
    BY DEF Init, Idle
  <2>2. \A m \in Markets : store[m] = 0
    BY DEF Init
  <2>. QED
    BY <2>1, <2>2 DEF OwnMarkets, PairsInv, OneInsertion, AllFound, AllReported, Reported
<1>2. DiscoveryInv /\ OwnMarkets /\ (Orderly => PairsInv) /\ [Next]_vars
        => OwnMarkets' /\ (Orderly' => PairsInv')
  <2> SUFFICES ASSUME DiscoveryInv, OwnMarkets, Orderly => PairsInv, [Next]_vars, Orderly'
               PROVE  PairsInv'
    BY OwnMarketsKept DEF DiscoveryInv
  <2>1. PairsInv /\ TypeOK /\ HitsAreFindable
    BY UpsetsGrow DEF Orderly, DiscoveryInv
  <2>2. CASE \E w \in Workers : Search(w) \/ Insert(w)
    BY <2>1, <2>2, SearchKeepsPairs, InsertKeepsPairs
  <2>3. CASE NothingLost
    BY <2>1, <2>3, NothingLostKeepsPairs
  <2>. QED
    BY <2>1, <2>2, <2>3, OthersLoseNothing DEF Next, Work
<1>. QED
  BY <1>1, <1>2, DiscoveryInvIsInvariant, PTL DEF Spec

(* Any two similar markets that are both in the store have been reported,   *)
(* or are being, whichever way they came and whatever restarts in order.    *)
THEOREM PairsAreReported == Spec => []StoredPairsReported
<1>1. OwnMarkets /\ (Orderly => PairsInv) => StoredPairsReported
  BY DEF Orderly, PairsInv, AllReported, StoredPairsReported
<1>. QED
  BY <1>1, PairsInvariant, PTL

-------------------------------------------------------------------------------
(* The backfills of a platform have not begun, rest since the last unit of  *)
(* time, or run in this one.                                                *)
Waiting(p) == \A w \in Backfills(p) : work[w].at = "off"

Resting(p) == \A w \in Backfills(p) : work[w].at = "done" /\ work[w].stamp = now - 1

Running(p) ==
    \A w \in Backfills(p) : work[w].at = "fetch" \/ (work[w].at # "off" /\ work[w].stamp = now)

InTurn ==
    /\ announced = {} /\ \A p \in Platforms : work[<<p, Live>>].at = "off"
    /\ \A p \in Platforms : Waiting(p) \/ Resting(p) \/ Running(p)

NothingAhead ==
    /\ \A m \in Markets : store[m] <= now /\ created[m] <= now
    /\ \A p \in Platforms : window[p] <= now
    /\ \A m \in Markets : Resting(PlatformOf[m]) => store[m] < now

Backfill(m) == <<PlatformOf[m], TagOf[m]>>

(* An open market from before the window is accounted for, one from before  *)
(* the fetch is or will be, and one from before the last insertion is when  *)
(* the bot starts again.                                                    *)
NotMissed(m) ==
    LET job == work[Backfill(m)]
    IN  /\ created[m] < window[PlatformOf[m]] => AccountedFor(m)
        /\ job.at \in {"search", "insert"} /\ created[m] < job.stamp
             => AccountedFor(m) \/ m \in job.got
        /\ job.at \in {"send", "done"} /\ created[m] < job.stamp => AccountedFor(m)
        /\ Waiting(PlatformOf[m]) =>
             \A n \in Markets :
                PlatformOf[n] = PlatformOf[m] /\ created[m] < store[n] => AccountedFor(m)

NoneMissed == \A m \in Markets \ closed : created[m] # 0 => NotMissed(m)

BackfillInv == InTurn /\ NothingAhead /\ NoneMissed

Punctual == upset \subseteq {"restart", "race", "crowd", "refused", "overdue"}

LEMMA BackfillOfMarket ==
    ASSUME NEW m \in Markets
    PROVE  /\ PlatformOf[m] \in Platforms /\ TagOf[m] \in Tags
           /\ Backfill(m) \in Backfills(PlatformOf[m]) /\ Backfill(m) \in Workers
BY DEF Backfill, Backfills, Workers

LEMMA BackfillIsWorker ==
    ASSUME NEW p \in Platforms, NEW w \in Backfills(p)
    PROVE  w \in Workers /\ w[1] = p /\ w[2] # Live
BY DEF Backfills, Workers

LEMMA Numbers ==
    ASSUME TypeOK
    PROVE  /\ now \in Nat /\ now # 0
           /\ \A m \in Markets : created[m] \in Nat /\ store[m] \in Nat
           /\ \A p \in Platforms : window[p] \in Nat
           /\ \A w \in Workers : work[w].stamp \in Nat
BY DEF TypeOK

(* Time passes when the backfills are through.                              *)
LEMMA TickKeepsBackfills == ASSUME TypeOK, BackfillInv, Punctual', Tick PROVE BackfillInv'
<1>1. /\ now' = now + 1
      /\ UNCHANGED <<created, closed, announced, store, overdue, passedOver, window, work>>
      /\ \A w \in Workers : AtRest(w) /\ (work[w].at = "done" => Current(w))
  BY DEF Tick, UpsetIf, Upset, UpsetBy, Punctual
<1>2. ASSUME NEW p \in Platforms
      PROVE  Waiting(p)' \/ Resting(p)'
  <2>1. CASE Waiting(p)
    BY <1>1, <2>1 DEF Waiting
  <2>2. CASE ~Waiting(p)
    <3> SUFFICES ASSUME NEW w \in Backfills(p) PROVE work[w].at = "done" /\ work[w].stamp = now' - 1
      BY <1>1 DEF Resting
    <3>1. w \in Workers /\ w[2] # Live
      BY BackfillIsWorker
    <3>2. work[w].at = "done"
      BY <1>1, <2>2, <3>1 DEF BackfillInv, InTurn, Resting, Running, AtRest
    <3>. QED
      BY <1>1, <3>1, <3>2, Numbers DEF Current
  <2>. QED
    BY <2>1, <2>2
<1>3. InTurn'
  BY <1>1, <1>2 DEF BackfillInv, InTurn
<1>4. NothingAhead'
  BY <1>1, Numbers, BackfillOfMarket DEF BackfillInv, NothingAhead
<1>5. NoneMissed'
  BY <1>1 DEF BackfillInv, NoneMissed, NotMissed, Waiting, AccountedFor
<1>. QED
  BY <1>3, <1>4, <1>5 DEF BackfillInv

(* No stamp is of the future.                                               *)
LEMMA StampsArePast ==
    ASSUME TypeOK, BackfillInv, NEW m \in Markets, work[Backfill(m)].at \notin {"off", "fetch"}
    PROVE  work[Backfill(m)].stamp <= now
<1>1. work[Backfill(m)].stamp \in {now, now - 1}
  BY BackfillOfMarket DEF BackfillInv, InTurn, Waiting, Resting, Running
<1>. QED
  BY <1>1, Numbers

LEMMA VenuesKeepBackfills ==
    ASSUME TypeOK, BackfillInv, Punctual',
           DeleteOldPoints \/ \E m \in Markets : Create(m) \/ Close(m) \/ Outlive(m)
    PROVE  BackfillInv'
<1>1. UNCHANGED <<now, announced, work, window, passedOver>>
  BY DEF DeleteOldPoints, Create, Close, Outlive, Upset, UpsetBy, Punctual, world
<1>2. InTurn'
  BY <1>1 DEF BackfillInv, InTurn, Waiting, Resting, Running
<1>3. CASE DeleteOldPoints \/ \E m \in Markets : Close(m) \/ Outlive(m)
  <2>1. /\ UNCHANGED created /\ closed \subseteq closed'
        /\ \A m \in Markets : store'[m] \in {0, store[m]}
        /\ \A m \in Markets : AccountedFor(m) => AccountedFor(m)'
    BY <1>3 DEF DeleteOldPoints, Close, Outlive, world, TypeOK, AccountedFor
  <2>2. NothingAhead'
    BY <1>1, <2>1, Numbers DEF BackfillInv, NothingAhead, Resting
  <2>3. NoneMissed'
    <3> SUFFICES ASSUME NEW m \in Markets \ closed, created[m] # 0 PROVE NotMissed(m)'
      BY <2>1 DEF NoneMissed
    <3>1. NotMissed(m) /\ (AccountedFor(m) => AccountedFor(m)')
      BY <2>1 DEF BackfillInv, NoneMissed
    <3>2. \A n \in Markets : created[m] < store'[n] => created[m] < store[n]
      BY <2>1, Numbers
    <3>. QED
      BY <1>1, <2>1, <3>1, <3>2 DEF NotMissed, Waiting
  <2>. QED
    BY <1>2, <2>2, <2>3 DEF BackfillInv
<1>4. ASSUME NEW c \in Markets, Create(c)
      PROVE  BackfillInv'
  <2>1. UNCHANGED <<closed, store, overdue>> /\ created' = [created EXCEPT ![c] = now]
    BY <1>4 DEF Create
  <2>2. created'[c] = now /\ \A m \in Markets \ {c} : created'[m] = created[m]
    BY <2>1 DEF TypeOK
  <2>3. NothingAhead'
    BY <1>1, <2>1, <2>2, Numbers DEF BackfillInv, NothingAhead, Resting
  <2>4. NotMissed(c)'
    <3>1. ~(now < window[PlatformOf[c]]) /\ \A n \in Markets : ~(now < store[n])
      BY Numbers, BackfillOfMarket DEF BackfillInv, NothingAhead
    <3>2. work[Backfill(c)].at \notin {"off", "fetch"} => ~(now < work[Backfill(c)].stamp)
      BY Numbers, BackfillOfMarket, StampsArePast
    <3>. QED
      BY <1>1, <2>1, <2>2, <3>1, <3>2 DEF NotMissed
  <2>5. ASSUME NEW m \in Markets \ closed, m # c, created[m] # 0
        PROVE  NotMissed(m)'
    <3>1. NotMissed(m) /\ created'[m] = created[m]
      BY <2>2, <2>5 DEF BackfillInv, NoneMissed
    <3>. QED
      BY <1>1, <2>1, <3>1 DEF NotMissed, Waiting, AccountedFor
  <2>6. NoneMissed'
    BY <2>1, <2>2, <2>4, <2>5 DEF NoneMissed
  <2>. QED
    BY <1>2, <2>3, <2>6 DEF BackfillInv
<1>. QED
  BY <1>3, <1>4

(* What is known of the point of an open market when all of its platform    *)
(* are at rest, and the bot starts again.                                   *)
LEMMA RestMissesNothing ==
    ASSUME TypeOK, BackfillInv, NEW m \in Markets \ closed, created[m] # 0,
           \A w \in Backfills(PlatformOf[m]) : AtRest(w),
           NEW n \in Markets, PlatformOf[n] = PlatformOf[m], created[m] < store[n]
    PROVE  AccountedFor(m)
<1>. DEFINE p == PlatformOf[m]
            w == Backfill(m)
<1>1. /\ p \in Platforms /\ w \in Workers /\ w \in Backfills(p) /\ NotMissed(m)
  BY BackfillOfMarket DEF BackfillInv, NoneMissed
<1>2. CASE Waiting(p)
  BY <1>1, <1>2 DEF NotMissed
<1>3. CASE Resting(p)
  <2>1. work[w].at = "done" /\ work[w].stamp = now - 1 /\ store[n] < now
    BY <1>1, <1>3 DEF Resting, BackfillInv, NothingAhead
  <2>2. created[m] < work[w].stamp
    BY <2>1, Numbers
  <2>. QED
    BY <1>1, <2>1, <2>2 DEF NotMissed
<1>4. CASE Running(p)
  <2>1. AtRest(w) /\ (work[w].at = "fetch" \/ (work[w].at # "off" /\ work[w].stamp = now))
    BY <1>1, <1>4 DEF Running
  <2>2. work[w].at = "done" /\ work[w].stamp = now /\ store[n] <= now
    BY <2>1 DEF AtRest, BackfillInv, NothingAhead
  <2>3. created[m] < work[w].stamp
    BY <2>2, Numbers
  <2>. QED
    BY <1>1, <2>2, <2>3 DEF NotMissed
<1>. QED
  BY <1>1, <1>2, <1>3, <1>4 DEF BackfillInv, InTurn

LEMMA RestartKeepsBackfills == ASSUME TypeOK, BackfillInv, Punctual', Restart PROVE BackfillInv'
<1>1. /\ announced' = {} /\ \A p \in Platforms : window'[p] = 0
      /\ UNCHANGED <<now, created, closed, store, overdue, passedOver>>
      /\ \A w \in Workers : work'[w].at = "off" /\ AtRest(w)
  BY DEF Restart, Upset, UpsetBy, Punctual, Idle, world
<1>2. \A p \in Platforms : \A w \in Backfills(p) : work'[w].at = "off" /\ AtRest(w)
  BY <1>1, BackfillIsWorker
<1>3. InTurn'
  BY <1>1, <1>2, WorkerSets DEF InTurn, Waiting
<1>4. \A m \in Markets : ~Resting(PlatformOf[m])'
  BY <1>1, BackfillOfMarket DEF Resting
<1>5. NothingAhead'
  BY <1>1, <1>4, Numbers DEF BackfillInv, NothingAhead
<1>6. NoneMissed'
  <2> SUFFICES ASSUME NEW m \in Markets \ closed, created[m] # 0 PROVE NotMissed(m)'
    BY <1>1 DEF NoneMissed
  <2>1. ~(created[m] < window'[PlatformOf[m]]) /\ work'[Backfill(m)].at = "off"
    BY <1>1, BackfillOfMarket, Numbers
  <2>2. \A n \in Markets :
           PlatformOf[n] = PlatformOf[m] /\ created[m] < store[n] => AccountedFor(m)
    BY <1>2, BackfillOfMarket, RestMissesNothing
  <2>. QED
    BY <1>1, <2>1, <2>2 DEF NotMissed, AccountedFor
<1>. QED
  BY <1>3, <1>5, <1>6 DEF BackfillInv

(* The watermark is the stamp of a market of the platform.                  *)
LEMMA LastInsertIsStamp ==
    ASSUME TypeOK, NEW p \in Platforms
    PROVE  LastInsert(p) = 0 \/ \E n \in Markets : PlatformOf[n] = p /\ LastInsert(p) = store[n]
<1> DEFINE times == {0} \cup {store[m] : m \in {n \in Markets : PlatformOf[n] = p}}
<1>1. times \subseteq 0..MaxTime /\ times # {}
  BY DEF TypeOK
<1>2. Max(times) \in times
  <2> HIDE DEF times
  <2>. QED
    BY <1>1, MaxInRange
<1>. QED
  BY <1>2 DEF LastInsert

LEMMA StartKeepsBackfills ==
    ASSUME TypeOK, BackfillInv, Punctual', NEW p \in Platforms, ReadWatermark(p) \/ BackfillAgain(p)
    PROVE  BackfillInv'
<1>1. /\ UNCHANGED <<now, created, closed, announced, store, overdue>>
      /\ \A w \in Backfills(p) : AtRest(w) /\ work'[w].at = "fetch"
      /\ \A w \in Workers \ Backfills(p) : work'[w] = work[w]
  <2>1. /\ work' = [w \in Workers |->
                     IF w \in Backfills(p) THEN [Idle EXCEPT !.at = "fetch"] ELSE work[w]]
        /\ \A w \in Backfills(p) : AtRest(w)
        /\ UNCHANGED <<now, created, closed, announced, store, overdue>>
    BY DEF ReadWatermark, BackfillAgain, StartFetching, AtRest, world
  <2>2. [Idle EXCEPT !.at = "fetch"].at = "fetch"
    BY DEF Idle
  <2>. QED
    BY <2>1, <2>2, WorkerSets
<1>2. \A q \in Platforms : q # p => \A w \in Backfills(q) : work'[w] = work[w]
  BY <1>1, BackfillIsWorker DEF Backfills
<1>3. InTurn'
  <2>1. \A q \in Platforms : work'[<<q, Live>>] = work[<<q, Live>>]
    BY <1>1, WorkerSets, BackfillIsWorker
  <2>2. Running(p)'
    BY <1>1 DEF Running
  <2>3. ASSUME NEW q \in Platforms, q # p PROVE Waiting(q)' \/ Resting(q)' \/ Running(q)'
    BY <1>1, <1>2, <2>3 DEF BackfillInv, InTurn, Waiting, Resting, Running
  <2>. QED
    BY <1>1, <2>1, <2>2, <2>3 DEF BackfillInv, InTurn
<1>4. \A q \in Platforms : q # p => window'[q] = window[q]
  BY DEF ReadWatermark, BackfillAgain, TypeOK
<1>5. /\ window'[p] <= now
      /\ passedOver \subseteq passedOver'
      /\ \A m \in Markets \ closed :
            PlatformOf[m] = p /\ created[m] # 0 /\ created[m] < window'[p] => AccountedFor(m)'
  <2>1. CASE ReadWatermark(p) /\ LastInsert(p) # 0
    <3>1. window'[p] = LastInsert(p) /\ UNCHANGED passedOver
      BY <2>1 DEF ReadWatermark, TypeOK
    <3>2. window'[p] <= now
      BY <2>1, <3>1, LastInsertIsStamp DEF BackfillInv, NothingAhead
    <3>3. ASSUME NEW m \in Markets \ closed,
                 PlatformOf[m] = p, created[m] # 0, created[m] < window'[p]
          PROVE  AccountedFor(m)'
      <4>1. PICK n \in Markets : PlatformOf[n] = p /\ window'[p] = store[n]
        BY <2>1, <3>1, LastInsertIsStamp
      <4>2. AccountedFor(m)
        BY <1>1, <3>3, <4>1, RestMissesNothing
      <4>. QED
        BY <1>1, <3>1, <4>2 DEF AccountedFor
    <3>. QED
      BY <3>1, <3>2, <3>3
  <2>2. CASE ReadWatermark(p) /\ LastInsert(p) = 0
    <3>1. /\ window'[p] = now - Reach
          /\ passedOver' = passedOver \cup Before(p, now - Reach)
      BY <2>2 DEF ReadWatermark, TypeOK
    <3>2. now - Reach <= now
      BY Numbers
    <3>. QED
      BY <3>1, <3>2 DEF Before, AccountedFor
  <2>3. CASE BackfillAgain(p)
    <3>1. /\ window'[p] = now - 1 /\ UNCHANGED passedOver
          /\ \A w \in Backfills(p) : work[w].at = "done" /\ ~Current(w)
      BY <2>3 DEF BackfillAgain, TypeOK
    <3>2. ASSUME NEW m \in Markets \ closed,
                 PlatformOf[m] = p, created[m] # 0, created[m] < window'[p]
          PROVE  AccountedFor(m)'
      <4>1. work[Backfill(m)].at = "done" /\ ~Current(Backfill(m)) /\ NotMissed(m)
        BY <3>1, <3>2, BackfillOfMarket DEF BackfillInv, NoneMissed
      <4>2. work[Backfill(m)].stamp = now - 1
        BY <3>2, <4>1, BackfillOfMarket
          DEF BackfillInv, InTurn, Waiting, Resting, Running, Current
      <4>3. AccountedFor(m)
        BY <3>1, <3>2, <4>1, <4>2 DEF NotMissed
      <4>. QED
        BY <1>1, <3>1, <4>3 DEF AccountedFor
    <3>. QED
      BY <3>1, <3>2, Numbers
  <2>. QED
    BY <2>1, <2>2, <2>3
<1>6. NothingAhead'
  <2>1. \A m \in Markets : Resting(PlatformOf[m])' => Resting(PlatformOf[m])
    BY <1>1, <1>2, BackfillOfMarket DEF Resting
  <2>. QED
    BY <1>1, <1>4, <1>5, <2>1 DEF BackfillInv, NothingAhead
<1>7. NoneMissed'
  <2> SUFFICES ASSUME NEW m \in Markets \ closed, created[m] # 0 PROVE NotMissed(m)'
    BY <1>1 DEF NoneMissed
  <2>1. NotMissed(m)
    BY DEF BackfillInv, NoneMissed
  <2>2. CASE PlatformOf[m] = p
    <3>1. work'[Backfill(m)].at = "fetch" /\ ~Waiting(PlatformOf[m])'
      BY <1>1, <2>2, BackfillOfMarket DEF Waiting
    <3>. QED
      BY <1>1, <1>5, <2>2, <3>1 DEF NotMissed
  <2>3. CASE PlatformOf[m] # p
    <3>1. /\ work'[Backfill(m)] = work[Backfill(m)]
          /\ Waiting(PlatformOf[m])' => Waiting(PlatformOf[m])
          /\ window'[PlatformOf[m]] = window[PlatformOf[m]]
      BY <1>2, <1>4, <2>3, BackfillOfMarket DEF Waiting
    <3>. QED
      BY <1>1, <1>5, <2>1, <3>1 DEF NotMissed, AccountedFor
  <2>. QED
    BY <2>2, <2>3
<1>. QED
  BY <1>3, <1>6, <1>7 DEF BackfillInv

(* A worker at work is a backfill of this unit of time ...                  *)
LEMMA AtWork ==
    ASSUME TypeOK, BackfillInv, NEW w \in Workers, work[w].at \notin {"off", "done"}
    PROVE  /\ w[1] \in Platforms /\ w[2] \in Tags /\ w = <<w[1], w[2]>>
           /\ w \in Backfills(w[1]) /\ Running(w[1])
           /\ work[w].at # "fetch" => work[w].stamp = now
<1>1. w[1] \in Platforms /\ w[2] \in Tags \cup {Live} /\ w = <<w[1], w[2]>>
  BY DEF Workers
<1>2. w[2] # Live
  BY <1>1 DEF BackfillInv, InTurn
<1>3. w \in Backfills(w[1])
  BY <1>1, <1>2 DEF Backfills
<1>4. Running(w[1])
  BY <1>1, <1>3 DEF BackfillInv, InTurn, Waiting, Resting
<1>. QED
  BY <1>1, <1>2, <1>3, <1>4 DEF Running

(* ... and its step keeps the turns.                                        *)
LEMMA WorkKeepsTurns ==
    ASSUME TypeOK, BackfillInv, NEW w \in Workers, work[w].at \notin {"off", "done"},
           work'[w].at # "off", work'[w].stamp = now,
           \A v \in Workers \ {w} : work'[v] = work[v],
           UNCHANGED <<now, announced>>
    PROVE  /\ InTurn'
           /\ \A p \in Platforms : (Waiting(p)' => Waiting(p)) /\ (Resting(p)' => Resting(p))
           /\ ~Waiting(w[1])' /\ ~Resting(w[1])'
<1>1. /\ w[1] \in Platforms /\ w[2] \in Tags /\ w = <<w[1], w[2]>>
      /\ w \in Backfills(w[1]) /\ Running(w[1])
  BY AtWork
<1>2. ~Waiting(w[1])' /\ ~Resting(w[1])'
  BY <1>1, Numbers DEF Waiting, Resting
<1>3. \A p \in Platforms : p # w[1] => \A v \in Backfills(p) : work'[v] = work[v]
  BY BackfillIsWorker
<1>4. \A p \in Platforms : work'[<<p, Live>>] = work[<<p, Live>>]
  BY <1>1, WorkerSets
<1>5. Running(w[1])'
  BY <1>1, BackfillIsWorker DEF Running
<1>6. \A p \in Platforms : (Waiting(p)' => Waiting(p)) /\ (Resting(p)' => Resting(p))
  BY <1>2, <1>3 DEF Waiting, Resting
<1>7. ASSUME NEW p \in Platforms PROVE Waiting(p)' \/ Resting(p)' \/ Running(p)'
  BY <1>3, <1>5 DEF BackfillInv, InTurn, Waiting, Resting, Running
<1>. QED
  BY <1>2, <1>4, <1>6, <1>7 DEF BackfillInv, InTurn

(* A job that is no market's business leaves it as it was.                  *)
LEMMA OthersNotMissed ==
    ASSUME NEW m \in Markets, NotMissed(m),
           work'[Backfill(m)] = work[Backfill(m)],
           Waiting(PlatformOf[m])' => Waiting(PlatformOf[m]),
           AccountedFor(m) => AccountedFor(m)',
           Waiting(PlatformOf[m])' =>
             \A n \in Markets : PlatformOf[n] = PlatformOf[m] => store'[n] = store[n],
           UNCHANGED <<created, window>>
    PROVE  NotMissed(m)'
BY DEF NotMissed

LEMMA FetchKeepsBackfills ==
    ASSUME TypeOK, BackfillInv, Punctual', NEW p \in Platforms, NEW t \in Tags, Fetch(p, t)
    PROVE  BackfillInv'
<1>. DEFINE w == <<p, t>>
<1>1. /\ w \in Workers /\ w[1] = p /\ work[w].at = "fetch"
      /\ UNCHANGED <<now, created, closed, announced, store, overdue, window>>
  BY DEF Fetch, Workers, world
<1>2. PICK valid \in SUBSET Listed(p, t) :
        /\ passedOver' = passedOver \cup (Listed(p, t) \ valid)
        /\ \/ work'[w].at = "done" /\ valid = {}
           \/ work'[w].at = "search" /\ work'[w].got = valid
        /\ work'[w].stamp = now
        /\ \A v \in Workers \ {w} : work'[v] = work[v]
  <2>1. PICK got \in SUBSET Listed(p, t), valid \in SUBSET Listed(p, t) :
          /\ valid \subseteq got
          /\ UpsetBy({kind \in {"page", "refused"} :
                        IF kind = "page" THEN got # Listed(p, t) ELSE valid # got})
          /\ passedOver' = passedOver \cup (got \ valid)
          /\ IF valid = {}
             THEN work' = [work EXCEPT ![w] = [Idle EXCEPT !.at = "done", !.stamp = now]]
             ELSE Begin(w, valid)
    BY DEF Fetch, Validated
  <2>2. got = Listed(p, t)
    BY <2>1 DEF UpsetBy, Punctual
  <2>3. ASSUME NEW job, work' = [work EXCEPT ![w] = job]
        PROVE  work'[w] = job /\ \A v \in Workers \ {w} : work'[v] = work[v]
    <3>1. DOMAIN work = Workers
      BY DEF TypeOK
    <3>. QED
      BY <1>1, <2>3, <3>1
  <2>4. CASE valid = {}
    <3>. DEFINE job == [Idle EXCEPT !.at = "done", !.stamp = now]
    <3>1. job.at = "done" /\ job.stamp = now
      BY DEF Idle
    <3>2. work' = [work EXCEPT ![w] = job]
      BY <2>1, <2>4
    <3>. HIDE DEF job
    <3>. QED
      BY <2>1, <2>2, <2>3, <2>4, <3>1, <3>2
  <2>5. CASE valid # {}
    <3>. DEFINE job == [at |-> "search", got |-> valid, stamp |-> now, hits |-> {}]
    <3>1. job.at = "search" /\ job.got = valid /\ job.stamp = now
      OBVIOUS
    <3>2. work' = [work EXCEPT ![w] = job]
      BY <2>1, <2>5 DEF Begin
    <3>. HIDE DEF job
    <3>. QED
      BY <2>1, <2>2, <2>3, <3>1, <3>2
  <2>. QED
    BY <2>4, <2>5
<1>3. /\ InTurn'
      /\ \A q \in Platforms : (Waiting(q)' => Waiting(q)) /\ (Resting(q)' => Resting(q))
      /\ ~Waiting(p)'
  <2>. HIDE DEF w
  <2>1. work[w].at \notin {"off", "done"} /\ work'[w].at # "off"
    BY <1>1, <1>2
  <2>. QED
    BY <1>1, <1>2, <2>1, WorkKeepsTurns
<1>4. \A m \in Markets : AccountedFor(m) => AccountedFor(m)'
  BY <1>1, <1>2 DEF AccountedFor
<1>5. NothingAhead'
  BY <1>1, <1>3, BackfillOfMarket DEF BackfillInv, NothingAhead
<1>6. NoneMissed'
  <2> SUFFICES ASSUME NEW m \in Markets \ closed, created[m] # 0 PROVE NotMissed(m)'
    BY <1>1 DEF NoneMissed
  <2>1. NotMissed(m)
    BY DEF BackfillInv, NoneMissed
  <2>2. CASE Backfill(m) = w
    <3>1. PlatformOf[m] = p /\ TagOf[m] = t
      BY <2>2 DEF Backfill
    <3>2. created[m] >= window[p] => m \in valid \/ m \in passedOver'
      BY <1>2, <3>1 DEF Listed
    <3>3. created[m] < window[p] => AccountedFor(m)'
      BY <1>4, <2>1, <3>1 DEF NotMissed
    <3>4. created[m] < window[p] \/ created[m] >= window[p]
      BY Numbers
    <3>. HIDE DEF w
    <3>5. m \in passedOver' => AccountedFor(m)'
      BY DEF AccountedFor
    <3>. QED
      BY <1>1, <1>2, <1>3, <2>2, <3>1, <3>2, <3>3, <3>4, <3>5 DEF NotMissed
  <2>3. CASE Backfill(m) # w
    <3>. HIDE DEF w
    <3>1. work'[Backfill(m)] = work[Backfill(m)]
      BY <1>2, <2>3, BackfillOfMarket
    <3>. QED
      BY <1>1, <1>3, <1>4, <2>1, <3>1, BackfillOfMarket, OthersNotMissed
  <2>. QED
    BY <2>2, <2>3
<1>. QED
  BY <1>3, <1>5, <1>6 DEF BackfillInv

LEMMA WorkKeepsBackfills ==
    ASSUME DiscoveryInv, OwnMarkets, BackfillInv, Punctual', NEW w \in Workers, Work(w)
    PROVE  BackfillInv'
<1>1. TypeOK /\ Sound(work[w]) /\ work[w].at \in {"search", "insert", "send"}
  <2>1. TypeOK /\ Sound(work[w])
    BY DEF DiscoveryInv, HitsAreFindable
  <2>. QED
    BY <2>1, SearchJob, InsertJob, SendJob DEF Work
<1>2. w[2] # Live /\ work[w].stamp = now /\ w[1] \in Platforms
  BY <1>1, AtWork
<1>3. /\ \/ /\ work[w].at = "search" /\ work'[w].at = "insert"
            /\ work'[w].got = work[w].got /\ UNCHANGED <<store, overdue>>
         \/ /\ work[w].at = "insert" /\ work'[w].at = "send"
            /\ Upsert(work[w].got, w)
         \/ /\ work[w].at = "send" /\ work'[w].at \in {"send", "done"}
            /\ UNCHANGED <<store, overdue>>
      /\ work'[w].stamp = work[w].stamp
      /\ \A v \in Workers \ {w} : work'[v] = work[v]
      /\ UNCHANGED <<now, created, closed, announced, window, passedOver>>
  <2>1. CASE Search(w)
    BY <1>1, <1>2, <2>1, SearchJob DEF Punctual
  <2>2. CASE Insert(w)
    BY <1>1, <2>2, InsertJob DEF Punctual
  <2>3. CASE Send(w)
    BY <1>1, <1>2, <2>3, SendJob
  <2>. QED
    BY <2>1, <2>2, <2>3 DEF Work
<1>4. /\ InTurn'
      /\ \A p \in Platforms : (Waiting(p)' => Waiting(p)) /\ (Resting(p)' => Resting(p))
      /\ ~Waiting(w[1])' /\ ~Resting(w[1])'
  <2>1. work[w].at \notin {"off", "done"} /\ work'[w].at # "off" /\ work'[w].stamp = now
    BY <1>1, <1>2, <1>3
  <2>. QED
    BY <1>1, <1>3, <2>1, WorkKeepsTurns
<1>5. /\ \A m \in Markets : store'[m] = store[m] \/ (store'[m] = now /\ PlatformOf[m] = w[1])
      /\ \A m \in Markets : AccountedFor(m) => AccountedFor(m)'
  BY <1>1, <1>2, <1>3, Numbers DEF Upsert, Stored, OwnMarkets, AccountedFor
<1>6. NothingAhead'
  BY <1>1, <1>3, <1>4, <1>5, Numbers, BackfillOfMarket DEF BackfillInv, NothingAhead
<1>7. NoneMissed'
  <2> SUFFICES ASSUME NEW m \in Markets \ closed, created[m] # 0 PROVE NotMissed(m)'
    BY <1>3 DEF NoneMissed
  <2>1. NotMissed(m)
    BY DEF BackfillInv, NoneMissed
  <2>2. CASE Backfill(m) = w
    <3>1. PlatformOf[m] = w[1]
      BY <2>2 DEF Backfill
    <3>2. work[w].at = "insert" => \A n \in work[w].got : n = m => AccountedFor(m)'
      BY <1>1, <1>2, <1>3, Numbers DEF Upsert, Stored, AccountedFor
    <3>. QED
      BY <1>1, <1>3, <1>4, <1>5, <2>1, <2>2, <3>1, <3>2 DEF NotMissed
  <2>3. CASE Backfill(m) # w
    <3>1. work'[Backfill(m)] = work[Backfill(m)]
      BY <1>3, <2>3, BackfillOfMarket
    <3>2. Waiting(PlatformOf[m])' =>
            \A n \in Markets : PlatformOf[n] = PlatformOf[m] => store'[n] = store[n]
      BY <1>4, <1>5
    <3>. QED
      BY <1>3, <1>4, <1>5, <2>1, <3>1, <3>2, BackfillOfMarket, OthersNotMissed
  <2>. QED
    BY <2>2, <2>3
<1>. QED
  BY <1>4, <1>6, <1>7 DEF BackfillInv

LEMMA BackfillInvariant == Spec => [](Punctual => BackfillInv)
<1>1. Init => BackfillInv
  <2> SUFFICES ASSUME Init PROVE BackfillInv
    OBVIOUS
  <2>1. \A w \in Workers : work[w].at = "off"
    BY DEF Init, Idle
  <2>2. /\ now = Start /\ \A m \in Markets : store[m] = 0 /\ created[m] \in 0..Start
        /\ \A p \in Platforms : window[p] = 0
    BY DEF Init
  <2>3. InTurn
    BY <2>1, WorkerSets, BackfillIsWorker DEF Init, InTurn, Waiting
  <2>4. NothingAhead
    BY <2>2 DEF NothingAhead
  <2>5. NoneMissed
    BY <2>1, <2>2, BackfillOfMarket DEF NoneMissed, NotMissed
  <2>. QED
    BY <2>3, <2>4, <2>5 DEF BackfillInv
<1>2. DiscoveryInv /\ OwnMarkets /\ (Punctual => BackfillInv) /\ [Next]_vars
        => (Punctual' => BackfillInv')
  <2> SUFFICES ASSUME DiscoveryInv, OwnMarkets, Punctual => BackfillInv, [Next]_vars, Punctual'
               PROVE  BackfillInv'
    OBVIOUS
  <2>1. BackfillInv /\ TypeOK
    BY UpsetsGrow DEF Punctual, DiscoveryInv
  <2>2. CASE UNCHANGED vars
    BY <2>1, <2>2 DEF vars, world, BackfillInv, InTurn, NothingAhead, NoneMissed, NotMissed,
                      Waiting, Resting, Running, AccountedFor
  <2>3. CASE Tick \/ Restart
    BY <2>1, <2>3, TickKeepsBackfills, RestartKeepsBackfills
  <2>4. CASE DeleteOldPoints \/ \E m \in Markets : Create(m) \/ Close(m) \/ Outlive(m)
    BY <2>1, <2>4, VenuesKeepBackfills
  <2>5. CASE \E m \in Markets : Announcement(m)
    BY <2>1, <2>5 DEF Announcement, BackfillInv, InTurn
  <2>6. CASE \E p \in Platforms :
                ReadWatermark(p) \/ BackfillAgain(p) \/ \E t \in Tags : Fetch(p, t)
    BY <2>1, <2>6, StartKeepsBackfills, FetchKeepsBackfills
  <2>7. CASE \E w \in Workers : Work(w)
    BY <2>1, <2>7, WorkKeepsBackfills
  <2>. QED
    BY <2>2, <2>3, <2>4, <2>5, <2>6, <2>7 DEF Next
<1>3. Spec => []OwnMarkets
  BY PairsInvariant, PTL
<1>. QED
  BY <1>1, <1>2, <1>3, DiscoveryInvIsInvariant, PTL DEF Spec

(* Whatever open market from before a backfill of its tag has no point, is  *)
(* one the first backfill did not reach, validation refused or the cleaner  *)
(* took: through later backfills and restarts, none falls between two       *)
(* windows, as long as nothing fails and no backfill comes late.            *)
THEOREM BackfillMissesNothing == Spec => []BackfillIngests
<1>1. (Punctual => BackfillInv) => BackfillIngests
  BY BackfillOfMarket
    DEF Punctual, BackfillInv, NoneMissed, NotMissed, BackfillIngests, Backfill
<1>. QED
  BY <1>1, BackfillInvariant, PTL
===============================================================================
