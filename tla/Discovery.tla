------------------------------- MODULE Discovery -------------------------------
(***************************************************************************)
(* How pairs of markets are found: the vector store                        *)
(* (src/src/vector_store.rs), the backfills of both platforms at startup   *)
(* and every 70 or 90 minutes (src/src/platforms/kalshi.rs, polymarket.rs) *)
(* and the handlers of the feeds' announcements of new markets.            *)
(*                                                                         *)
(* Every one of them is a worker: it gets markets, searches the store for  *)
(* similar markets of the other platform, inserts its own, and sends the   *)
(* hits to the dashboard.  Search, insertion and each send are awaits at   *)
(* which another worker goes on.                                           *)
(*                                                                         *)
(* A unit of time is the period of the later backfills; they go back one   *)
(* unit.  The hour that the one at startup goes back before the last       *)
(* insertion is within a unit.  The first goes back 125 hours, and what it *)
(* does not reach, what validation refuses and whose recorded close the    *)
(* cleaner finds two days past has no point though it is open.             *)
(***************************************************************************)
EXTENDS Naturals, FiniteSets, FiniteSetsExt

CONSTANTS
    Markets,
    Platforms,      \* kalshi and polymarket
    Tags,           \* MarketTag
    PlatformOf,     \* market -> its platform
    TagOf,          \* market -> the tag it is sorted under
    Similar(_, _),  \* do two markets' texts score 0.75 or more? (the cosine)
    HitLimit,       \* how many hits a search returns (10)
    Live,           \* the worker of a platform that is no backfill
    Start,          \* when the bot starts for the first time
    Reach,          \* how far back the first backfill goes (125 hours)
    MaxTime,        \* bound on the clock
    MaxUpsets       \* bound on the kinds of upsets of one behavior

ASSUME DiscoveryAssumption ==
    /\ PlatformOf \in [Markets -> Platforms]
    /\ TagOf \in [Markets -> Tags]
    /\ \A m, n \in Markets : Similar(m, n) <=> Similar(n, m)
    /\ HitLimit \in Nat \ {0} /\ Live \notin Tags
    /\ MaxTime \in Nat /\ Start \in 1..MaxTime /\ Reach \in 0..Start
    /\ MaxUpsets \in Nat

(* What may upset the orderly course of the backfills:                      *)
Upsets ==
    {"live",     \* new markets are announced
     "race",     \* searches and insertions of two workers interleave
     "crowd",    \* a market has more similar ones than a search returns
     "slow",     \* a backfill takes longer than its period, or comes late
     "page",     \* a page of markets cannot be had, or a shutdown ends the fetch
     "refused",  \* the record of a fetched market lacks something
     "overdue",  \* the recorded close of an open market is two days past
     "error",    \* the vector store fails
     "restart",  \* the bot restarts, with no worker at work
     "crash"}    \* the bot restarts at any moment

VARIABLES
    now,        \* the clock
    created,    \* market -> when it was created; 0: not yet
    closed,     \* the markets that have closed
    announced,  \* announcements not yet handled
    store,      \* market -> qdrant_inserted_at; 0: no point of it
    overdue,    \* the markets whose close, as last inserted, is two days past
    window,     \* platform -> from when on its backfill fetches
    inline,     \* platform -> have the later backfills begun?
    work,       \* worker -> where it is, its markets, their stamp, its hits
    reported,   \* the pairs <<anchor, match>> sent to the dashboard
    passedOver, \* the markets a backfill did not reach or take (a history variable)
    upset       \* the kinds of upsets there were (a history variable)

world == <<now, created, closed>>
vars == <<world, announced, store, overdue, window, inline, work, reported, passedOver, upset>>

Workers == Platforms \X (Tags \cup {Live})

Backfills(p) == {p} \X Tags

Idle == [at |-> "off", got |-> {}, stamp |-> 0, hits |-> {}]

UpsetBy(kinds) == upset' = upset \cup kinds /\ Cardinality(upset') <= MaxUpsets

Upset(kind) == UpsetBy({kind})

UpsetIf(kind, b) == IF b THEN Upset(kind) ELSE UNCHANGED upset

AtRest(w) == work[w].at \in {"off", "done"}

(* The backfill of this unit has been done.                                 *)
Current(w) == w[2] = Live \/ work[w].stamp = now

Done(w) ==
    work' = [work EXCEPT ![w] =
               [at |-> "done", got |-> {}, hits |-> {},
                stamp |-> IF w[2] = Live THEN 0 ELSE work[w].stamp]]

-------------------------------------------------------------------------------
(* What exists when the bot starts for the first time.                      *)
Init ==
    /\ now = Start
    /\ created \in [Markets -> 0..Start]
    /\ closed = {} /\ announced = {} /\ reported = {} /\ overdue = {} /\ passedOver = {}
    /\ store = [m \in Markets |-> 0]
    /\ window = [p \in Platforms |-> 0] /\ inline = [p \in Platforms |-> FALSE]
    /\ work = [w \in Workers |-> Idle]
    /\ upset = {}

(* Mistake: search with create_intra_platform_filter.                       *)
HitsIntra(M) ==
    {hit \in M \X {n \in Markets : store[n] # 0} :
        LET m == hit[1]  n == hit[2]
        IN  PlatformOf[m] = PlatformOf[n] /\ TagOf[m] = TagOf[n] /\ Similar(m, n)}

(* create_cross_platform_filter, the threshold and the search.              *)
Hits(M) ==
    {hit \in M \X {n \in Markets : store[n] # 0} :
        LET m == hit[1]  n == hit[2]
        IN  PlatformOf[m] # PlatformOf[n] /\ TagOf[m] = TagOf[n] /\ Similar(m, n)}

Of(m, hits) == {hit \in hits : hit[1] = m}

(* What the search returns: of each market all the hits, or the best ten;   *)
(* which are the best is left open.                                         *)
Best(M) ==
    {hits \in SUBSET Hits(M) :
        \A m \in M :
            /\ Cardinality(Of(m, hits)) <= HitLimit
            /\ Of(m, hits) = Of(m, Hits(M)) \/ Cardinality(Of(m, hits)) = HitLimit}

-------------------------------------------------------------------------------
(* The venues.                                                              *)

Tick ==
    /\ now < MaxTime
    /\ UpsetIf("slow", \E w \in Workers : ~AtRest(w) \/ (work[w].at = "done" /\ ~Current(w)))
    /\ now' = now + 1
    /\ UNCHANGED <<created, closed, announced, store, overdue, window, inline, work, reported,
                   passedOver>>

Create(m) ==
    /\ created[m] = 0
    /\ created' = [created EXCEPT ![m] = now]
    /\ \/ announced' = announced \cup {m} /\ Upset("live")
       \/ UNCHANGED <<announced, upset>>
    /\ UNCHANGED <<now, closed, store, overdue, window, inline, work, reported, passedOver>>

Close(m) ==
    /\ created[m] # 0 /\ m \notin closed
    /\ closed' = closed \cup {m}
    /\ UNCHANGED <<now, created, announced, store, overdue, window, inline, work, reported,
                   passedOver, upset>>

(* The close that was recorded with the market's point gets two days past.  *)
(* It need not be the market's: nothing updates it when the venue moves the *)
(* close, and Polymarket lists markets as open past their end date.         *)
Outlive(m) ==
    /\ store[m] # 0 /\ m \notin overdue
    /\ overdue' = overdue \cup {m}
    /\ UpsetIf("overdue", m \notin closed)
    /\ UNCHANGED <<world, announced, store, window, inline, work, reported, passedOver>>

-------------------------------------------------------------------------------
(* Startup: backfill_kalshi_history, initial_backfill_polymarket_history.   *)

(* get_last_insert_time, of the whole platform.                             *)
LastInsert(p) == Max({0} \cup {store[m] : m \in {n \in Markets : PlatformOf[n] = p}})

StartFetching(p) ==
    work' = [w \in Workers |-> IF w \in Backfills(p) THEN [Idle EXCEPT !.at = "fetch"] ELSE work[w]]

(* The markets of a platform that a backfill from a time on leaves behind.  *)
Before(p, from) ==
    {m \in Markets : PlatformOf[m] = p /\ created[m] # 0 /\ created[m] < from}

ReadWatermark(p) ==
    /\ \A w \in Backfills(p) : work[w].at = "off"
    /\ IF LastInsert(p) # 0
       THEN window' = [window EXCEPT ![p] = LastInsert(p)] /\ UNCHANGED passedOver
       ELSE /\ window' = [window EXCEPT ![p] = now - Reach]
            /\ passedOver' = passedOver \cup Before(p, now - Reach)
    /\ StartFetching(p)
    /\ UNCHANGED <<world, announced, store, overdue, inline, reported, upset>>

(* Mistake: go back to the beginning of the unit.                           *)
BackfillAgainShort(p) ==
    /\ \A w \in Backfills(p) : work[w].at = "done" /\ ~Current(w)
    /\ AtRest(<<p, Live>>)
    /\ window' = [window EXCEPT ![p] = now]
    /\ inline' = [inline EXCEPT ![p] = TRUE]
    /\ StartFetching(p)
    /\ UNCHANGED <<world, announced, store, overdue, reported, passedOver, upset>>

(* The timer of the feed's loop; the loop waits for the backfill.  The one  *)
(* at startup is over by then.                                              *)
BackfillAgain(p) ==
    /\ \A w \in Backfills(p) : work[w].at = "done" /\ ~Current(w)
    /\ AtRest(<<p, Live>>)
    /\ window' = [window EXCEPT ![p] = now - 1]
    /\ inline' = [inline EXCEPT ![p] = TRUE]
    /\ StartFetching(p)
    /\ UNCHANGED <<world, announced, store, overdue, reported, passedOver, upset>>

(* The markets get their payloads, stamped with the time of day.            *)
Begin(w, got) ==
    work' = [work EXCEPT ![w] = [at |-> "search", got |-> got, stamp |-> now, hits |-> {}]]

(* What the venue answers: the open markets of the tag since `window`.      *)
Listed(p, t) ==
    {m \in Markets \ closed :
        PlatformOf[m] = p /\ TagOf[m] = t /\ created[m] # 0 /\ created[m] >= window[p]}

(* QdrantPointData::validate drops a market whose record lacks something;   *)
(* which do is left open.                                                   *)
Validated(got) == SUBSET got

(* Page by page, without the markets of a page that is given up; what was   *)
(* got and validated is used all the same.                                  *)
Fetch(p, t) ==
    /\ work[<<p, t>>].at = "fetch"
    /\ \E got \in SUBSET Listed(p, t) : \E valid \in Validated(got) :
         /\ UpsetBy({kind \in {"page", "refused"} :
                       IF kind = "page" THEN got # Listed(p, t) ELSE valid # got})
         /\ passedOver' = passedOver \cup (got \ valid)
         /\ IF valid = {}
            THEN work' = [work EXCEPT ![<<p, t>>] = [Idle EXCEPT !.at = "done", !.stamp = now]]
            ELSE Begin(<<p, t>>, valid)
    /\ UNCHANGED <<world, announced, store, overdue, window, inline, reported>>

(* The handlers of MarketLifecycleV2 and NewMarket.  A market whose record  *)
(* cannot be had, or is refused, is let go.                                 *)
Announcement(m) ==
    LET w == <<PlatformOf[m], Live>>
    IN  /\ m \in announced /\ AtRest(w)
        /\ inline[PlatformOf[m]] => \A v \in Backfills(PlatformOf[m]) : AtRest(v)
        /\ announced' = announced \ {m}
        /\ Begin(w, {m}) \/ UNCHANGED work
        /\ UNCHANGED <<world, store, overdue, window, inline, reported, passedOver, upset>>

-------------------------------------------------------------------------------
(* search_and_insert, multiple_search_and_insert.                           *)

Fails(w) ==
    Upset("error") /\ Done(w)

(* search_and_insert inserts nothing if it finds nothing.                   *)
Search(w) ==
    /\ work[w].at = "search"
    /\ \/ \E hits \in Best(work[w].got) :
             /\ IF w[2] = Live /\ hits = {} THEN Done(w)
                ELSE work' = [work EXCEPT ![w].at = "insert", ![w].hits = hits]
             /\ UpsetBy({kind \in {"race", "crowd"} :
                          IF kind = "race" THEN \E v \in Workers : work[v].at = "insert"
                          ELSE hits # Hits(work[w].got)})
       \/ Fails(w)
    /\ UNCHANGED <<world, announced, store, overdue, window, inline, reported, passedOver>>

Stored(M, w) == [m \in Markets |-> IF m \in M THEN work[w].stamp ELSE store[m]]

(* The points of the markets M, with the close of now.  An insertion in     *)
(* chunks may fail after some of them.                                      *)
Upsert(M, w) == store' = Stored(M, w) /\ overdue' = overdue \ M

Insert(w) ==
    /\ work[w].at = "insert"
    /\ \/ /\ Upsert(work[w].got, w)
          /\ work' = [work EXCEPT ![w].at = "send"]
          /\ UNCHANGED upset
       \/ /\ Fails(w)
          /\ \E M \in SUBSET work[w].got : M # work[w].got /\ Upsert(M, w)
    /\ UNCHANGED <<world, announced, window, inline, reported, passedOver>>

(* One event for each market that has hits.                                 *)
Send(w) ==
    /\ work[w].at = "send"
    /\ \/ work[w].hits = {} /\ Done(w) /\ UNCHANGED reported
       \/ \E m \in work[w].got :
             LET ebo == Of(m, work[w].hits)
             IN  /\ ebo # {}
                 /\ reported' = reported \cup ebo
                 /\ work' = [work EXCEPT ![w].hits = @ \ ebo]
    /\ UNCHANGED <<world, announced, store, overdue, window, inline, passedOver, upset>>

-------------------------------------------------------------------------------
(* Mistake: delete what closes within two days.                             *)
DeleteOldPointsEarly ==
    /\ store' = [m \in Markets |-> 0]
    /\ store' # store
    /\ UNCHANGED <<world, announced, overdue, window, inline, work, reported, passedOver, upset>>

(* run_delete_old_points: two days after the recorded close.                *)
DeleteOldPoints ==
    /\ \E m \in overdue : store[m] # 0
    /\ store' = [m \in Markets |-> IF m \in overdue THEN 0 ELSE store[m]]
    /\ UNCHANGED <<world, announced, overdue, window, inline, work, reported, passedOver, upset>>

(* Only the store survives.                                                 *)
Restart ==
    /\ \/ Upset("crash")
       \/ Upset("restart") /\ announced = {} /\ \A w \in Workers : AtRest(w)
    /\ announced' = {}
    /\ window' = [p \in Platforms |-> 0] /\ inline' = [p \in Platforms |-> FALSE]
    /\ work' = [w \in Workers |-> Idle]
    /\ UNCHANGED <<world, store, overdue, reported, passedOver>>

-------------------------------------------------------------------------------
Work(w) == Search(w) \/ Insert(w) \/ Send(w)

Next ==
    \/ Tick \/ DeleteOldPoints \/ Restart
    \/ \E m \in Markets : Create(m) \/ Close(m) \/ Outlive(m) \/ Announcement(m)
    \/ \E p \in Platforms :
          ReadWatermark(p) \/ BackfillAgain(p) \/ \E t \in Tags : Fetch(p, t)
    \/ \E w \in Workers : Work(w)

Spec == Init /\ [][Next]_vars

-------------------------------------------------------------------------------
TypeOK ==
    /\ now \in Start..MaxTime
    /\ created \in [Markets -> 0..MaxTime]
    /\ closed \subseteq Markets /\ announced \subseteq Markets
    /\ overdue \subseteq Markets /\ passedOver \subseteq Markets
    /\ store \in [Markets -> 0..MaxTime]
    /\ window \in [Platforms -> 0..MaxTime] /\ inline \in [Platforms -> BOOLEAN]
    /\ work \in [Workers -> [at : {"off", "fetch", "search", "insert", "send", "done"},
                             got : SUBSET Markets, stamp : 0..MaxTime,
                             hits : SUBSET (Markets \X Markets)]]
    /\ reported \subseteq Markets \X Markets
    /\ upset \subseteq Upsets

Pair(m, n) == PlatformOf[m] # PlatformOf[n] /\ TagOf[m] = TagOf[n] /\ Similar(m, n)

Known(m, n) == <<m, n>> \in reported \/ <<n, m>> \in reported

Sending(m, n) == \E w \in Workers : {<<m, n>>, <<n, m>>} \cap work[w].hits # {}

Reported(m, n) ==
    Pair(m, n) /\ store[m] # 0 /\ store[n] # 0 => Known(m, n) \/ Sending(m, n)

(* Two similar markets in the store have been reported as a pair, or are    *)
(* being: "Every new market is also searched against the store ... hits are *)
(* emitted" (README.md:57-58), of whichever worker came second, announced   *)
(* or backfilled, before or after a restart.  It does not survive that both *)
(* startup backfills search before either inserts (app.rs:144-166 runs them *)
(* at the same time), nor a crash between the insertion and the send, nor   *)
(* more than ten similar markets (vector_store.rs:261 and 325).             *)
StoredPairsReported ==
    upset \subseteq {"live", "restart", "slow", "page", "refused", "overdue"} =>
        \A m, n \in Markets : Reported(m, n)

(* Whatever fails, both markets of a reported pair can be found by later    *)
(* searches until the close recorded with them is two days past: a hit is   *)
(* emitted after the insertion (vector_store.rs:271-284), and the cleaner   *)
(* takes nothing else.                                                      *)
ReportedAreStored ==
    \A hit \in reported : \A m \in {hit[1], hit[2]} : store[m] # 0 \/ m \in overdue

(* The market has its point, or there is one of the three reasons for none. *)
AccountedFor(m) == store[m] # 0 \/ m \in passedOver \cup overdue

(* "Markets are ingested from both platforms (HTTP backfill by tag at       *)
(* startup ...)" (README.md:55): after a backfill of a tag, each of its     *)
(* open markets created before that has its point, but for what the first   *)
(* backfill did not reach, what validation refused and what the cleaner     *)
(* took by its recorded close.  The watermark is the platform's and not the *)
(* tag's: once something is inserted and something else is not, the next    *)
(* start skips what was missed.                                             *)
BackfillIngests ==
    upset \subseteq {"restart", "race", "crowd", "refused", "overdue"} =>
        \A m \in Markets \ closed :
            LET w == <<PlatformOf[m], TagOf[m]>>
            IN  /\ work[w].at = "done"
                /\ created[m] # 0 /\ created[m] < work[w].stamp
                => AccountedFor(m)
===============================================================================
