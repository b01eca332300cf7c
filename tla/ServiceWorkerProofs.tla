------------------------ MODULE ServiceWorkerProofs ------------------------
(* For any paths, releases and bounds: the caches of sw.js hold no copy from *)
(* before the active worker, and its files are there together or not at all. *)
EXTENDS ServiceWorker, FiniteSetTheorems, TLAPS

(* What is on its way or stored, and the workers it was made by.             *)
Types ==
    /\ release \in Releases
    /\ active \in Scripts \cup {0}
    /\ coming \in Scripts \cup {0}
    /\ store \in [CacheIds -> [Paths -> Copies \cup {None}]]
    /\ puts \subseteq Puts

(* The worker being installed is at least as new as the active one, and      *)
(* neither is newer than the server.                                         *)
Ordered ==
    /\ active <= Script[release]
    /\ coming # 0 => active <= coming /\ coming <= Script[release]

(* A copy is at least as new as the script that names its cache, and that    *)
(* cache is not older than the active worker.                                *)
Young(c, copy) == Script[copy.rel] >= c.of /\ c.of >= active

AllYoung ==
    /\ \A c \in CacheIds, p \in Paths : store[c][p] # None => Young(c, store[c][p])
    /\ \A x \in puts : Young(x.into, x.copy)

(* In a cache for static files '/' is only there with all the others; what   *)
(* is fetched later is another file.                                         *)
Whole ==
    /\ \A c \in CacheIds :
          c.kind = "static" /\ store[c][Root] # None =>
              \A p \in Precached : store[c][p] # None
    /\ \A x \in puts : x.into.kind = "static" => x.path \in Statics

CacheInv == Types /\ Ordered /\ AllYoung /\ Whole

LEMMA ScriptNumbers ==
    /\ \A r \in Releases : Script[r] \in Nat \ {0} /\ Script[r] \in Scripts
    /\ Scripts \subseteq Nat \ {0}
    /\ \A c \in CacheIds : c.of \in Nat
    /\ Precached \subseteq Paths /\ Root \in Paths
BY ServiceWorkerAssumption DEF Scripts, CacheIds, Paths

LEMMA InitCaches == Init => CacheInv
<1> SUFFICES ASSUME Init PROVE CacheInv
  OBVIOUS
<1>1. Types
  BY ServiceWorkerAssumption DEF Init, Types, Releases, Empty
<1>2. Ordered
  BY ServiceWorkerAssumption DEF Init, Ordered, Releases
<1>3. \A c \in CacheIds, p \in Paths : store[c][p] = None
  BY DEF Init, Empty
<1>4. QED
  BY <1>1, <1>2, <1>3, ScriptNumbers DEF Init, CacheInv, AllYoung, Whole

(* Nothing that is cached changes while the server moves on.                 *)
LEMMA WorldCaches ==
    ASSUME CacheInv, World
    PROVE  CacheInv'
<1>1. UNCHANGED <<active, coming, store, puts>>
  BY DEF World, worker, caches
<1>2. release' \in Releases /\ Script[release] <= Script[release']
  <2>1. CASE Deploy
    <3>1. release' \in Releases \ {1} /\ release' - 1 = release
      BY <2>1, ServiceWorkerAssumption DEF Deploy, CacheInv, Types, Releases
    <3>2. QED
      BY <3>1, ServiceWorkerAssumption
  <2>2. CASE UNCHANGED release
    BY <2>2, ScriptNumbers DEF CacheInv, Types
  <2>3. QED
    BY <2>1, <2>2 DEF World, Network, Load, Close
<1>3. Ordered'
  BY <1>1, <1>2, ScriptNumbers DEF CacheInv, Types, Ordered
<1>4. QED
  BY <1>1, <1>2, <1>3 DEF CacheInv, Types, AllYoung, Young, Whole

LEMMA RegisterCaches ==
    ASSUME CacheInv, NEW q \in loaded, Register(q)
    PROVE  CacheInv'
<1>1. UNCHANGED <<release, active, store, puts>> /\ coming' \in {Script[release], coming}
  BY DEF Register, caches
<1>2. QED
  BY <1>1, ScriptNumbers DEF CacheInv, Types, Ordered, AllYoung, Young, Whole

(* The files are stored together, at the present release.                    *)
LEMMA InstallCaches ==
    ASSUME CacheInv, Install
    PROVE  CacheInv'
<1>1. UNCHANGED <<release, active, coming, puts>>
  BY DEF Install, world
<1>2. CASE UNCHANGED store
  BY <1>1, <1>2 DEF CacheInv, Types, Ordered, AllYoung, Young, Whole
<1>3. CASE InstallFiles
  <2> DEFINE here == Static(coming)
  <2>1. PICK signedIn \in BOOLEAN :
            store' = [store EXCEPT ![here] =
               [p \in Paths |-> IF p \in Precached THEN Fetched(p, signedIn) ELSE @[p]]]
    BY <1>3 DEF InstallFiles
  <2>2. here.of = coming /\ here.kind = "static"
    BY DEF Static
  <2>3. \A p \in Paths : /\ Fetched(p, signedIn) \in Copies
                         /\ Fetched(p, signedIn).rel = release
                         /\ Fetched(p, signedIn) # None
    BY NoneAssumption DEF Fetched, Copies, CacheInv, Types
  <2> HIDE DEF here
  <2>4. store' \in [CacheIds -> [Paths -> Copies \cup {None}]]
    BY <2>1, <2>3 DEF CacheInv, Types
  <2>5. \A c \in CacheIds, p \in Paths :
            store'[c][p] = IF c = here /\ p \in Precached THEN Fetched(p, signedIn) ELSE store[c][p]
    BY <2>1 DEF CacheInv, Types
  <2>6. \A c \in CacheIds, p \in Paths : store'[c][p] # None =>
            Script[store'[c][p].rel] >= c.of /\ c.of >= active
    <3> SUFFICES ASSUME NEW c \in CacheIds, NEW p \in Paths, store'[c][p] # None
                 PROVE  Script[store'[c][p].rel] >= c.of /\ c.of >= active
      OBVIOUS
    <3>1. CASE c = here /\ p \in Precached
      <4>1. coming # 0
        BY <2>2, <3>1, ScriptNumbers DEF CacheIds
      <4>2. QED
        BY <1>1, <2>2, <2>3, <2>5, <3>1, <4>1, ScriptNumbers DEF CacheInv, Types, Ordered, Young
    <3>2. CASE ~(c = here /\ p \in Precached)
      BY <1>1, <2>5, <3>2 DEF CacheInv, AllYoung, Young
    <3>3. QED
      BY <3>1, <3>2
  <2>7. Whole'
    <3>1. ASSUME NEW c \in CacheIds, c.kind = "static", store'[c][Root] # None, NEW p \in Precached
          PROVE  store'[c][p] # None
      BY <2>3, <2>5, <3>1, ScriptNumbers DEF CacheInv, Whole
    <3>2. QED
      BY <1>1, <3>1 DEF CacheInv, Whole
  <2>8. AllYoung'
    BY <1>1, <2>6 DEF CacheInv, AllYoung, Young
  <2>9. QED
    BY <1>1, <2>4, <2>7, <2>8 DEF CacheInv, Types, Ordered
<1>4. QED
  BY <1>2, <1>3 DEF Install, InstallNothing

(* What stays belongs to the worker that takes over.                         *)
LEMMA ActivateCaches ==
    ASSUME CacheInv, Activate
    PROVE  CacheInv'
<1>1. /\ UNCHANGED release
      /\ active' = coming /\ coming' = 0 /\ puts' = {}
      /\ store' = [c \in CacheIds |-> IF c \in Kept(coming) THEN store[c] ELSE Empty]
  BY DEF Activate, world
<1>2. Types'
  BY <1>1 DEF CacheInv, Types, Empty
<1>3. Ordered'
  BY <1>1, ScriptNumbers DEF CacheInv, Types, Ordered
<1>4. \A c \in CacheIds, p \in Paths :
          store'[c][p] = IF c \in Kept(coming) THEN store[c][p] ELSE None
  BY <1>1 DEF Empty
<1>5. \A c \in Kept(coming) : c.of = coming
  BY DEF Kept, Static, Dynamic
<1>6. AllYoung'
  BY <1>1, <1>4, <1>5, ScriptNumbers DEF CacheInv, Types, AllYoung, Young
<1>7. Whole'
  BY <1>1, <1>4, ScriptNumbers DEF CacheInv, Whole
<1>8. QED
  BY <1>2, <1>3, <1>6, <1>7 DEF CacheInv

(* A copy of the present release is on its way to a cache of the active      *)
(* worker.                                                                   *)
LEMMA FetchCaches ==
    ASSUME CacheInv, active # 0, NEW p \in Paths, NEW c \in {Static(active), Dynamic(active)},
           c.kind = "static" => p \in Statics, FromNetwork(p, c),
           UNCHANGED <<release, active, coming, store>>
    PROVE  CacheInv'
<1> DEFINE copy == [rel |-> release, is |-> "ok"]
<1>1. puts' = puts \cup {[into |-> c, path |-> p, copy |-> copy]}
  BY DEF FromNetwork
<1>2. copy \in Copies /\ copy.rel = release
  BY DEF CacheInv, Types, Copies
<1> HIDE DEF copy
<1>3. c \in CacheIds /\ c.of = active
  BY ScriptNumbers DEF CacheInv, Types, CacheIds, Static, Dynamic
<1>4. puts' \subseteq Puts
  BY <1>1, <1>2, <1>3 DEF CacheInv, Types, Puts
<1>5. Young(c, copy)
  BY <1>2, <1>3, ScriptNumbers DEF CacheInv, Types, Ordered, Young
<1>6. \A x \in puts' : x \in puts \/ (x.into = c /\ x.copy = copy /\ x.path = p)
  BY <1>1
<1>7. AllYoung' /\ Whole'
  BY <1>5, <1>6 DEF CacheInv, AllYoung, Young, Whole
<1>8. QED
  BY <1>4, <1>7 DEF CacheInv, Types, Ordered

(* Nothing that is cached changes.                                           *)
LEMMA QuietCaches ==
    ASSUME CacheInv, UNCHANGED <<release, active, coming, store>>, puts' \subseteq puts
    PROVE  CacheInv'
BY DEF CacheInv, Types, Ordered, AllYoung, Young, Whole

LEMMA RequestCaches ==
    ASSUME CacheInv, NEW p \in Paths,
           \/ p \in Pages \cup Data /\ NetworkFirst(p)
           \/ p \in Statics /\ CacheFirst(p)
    PROVE  CacheInv'
<1>1. UNCHANGED <<release, active, coming, store>> /\ active # 0
  BY DEF NetworkFirst, CacheFirst, world, worker, caches
<1>2. CASE FromNetwork(p, Dynamic(active))
  <2>1. Dynamic(active).kind # "static"
    BY DEF Dynamic
  <2>2. QED
    BY <1>1, <1>2, <2>1, FetchCaches
<1>3. CASE p \in Statics /\ FromNetwork(p, Static(active))
  BY <1>1, <1>3, FetchCaches
<1>4. CASE UNCHANGED puts
  BY <1>1, <1>4, QuietCaches
<1>5. QED
  BY <1>2, <1>3, <1>4 DEF NetworkFirst, CacheFirst

LEMMA PutCaches ==
    ASSUME CacheInv, NEW x \in puts, Put(x)
    PROVE  CacheInv'
<1>1. /\ UNCHANGED <<release, active, coming>>
      /\ puts' = puts \ {x}
      /\ store' = [store EXCEPT ![x.into][x.path] = x.copy]
  BY DEF Put, world, worker
<1>2. x.into \in CacheIds /\ x.path \in Paths /\ x.copy \in Copies /\ x.copy # None
  BY NoneAssumption DEF CacheInv, Types, Puts
<1>3. Types'
  BY <1>1, <1>2 DEF CacheInv, Types
<1>4. \A c \in CacheIds, p \in Paths :
          store'[c][p] = IF c = x.into /\ p = x.path THEN x.copy ELSE store[c][p]
  BY <1>1, <1>2 DEF CacheInv, Types
<1>5. AllYoung'
  BY <1>1, <1>4 DEF CacheInv, AllYoung, Young
<1>6. Whole'
  <2>1. ASSUME NEW c \in CacheIds, c.kind = "static", store'[c][Root] # None, NEW p \in Precached
        PROVE  store'[c][p] # None
    <3>1. store[c][Root] # None
      BY <1>4, <2>1, ScriptNumbers, ServiceWorkerAssumption DEF CacheInv, Whole
    <3>2. store[c][p] # None
      BY <2>1, <3>1 DEF CacheInv, Whole
    <3>3. QED
      BY <1>2, <1>4, <2>1, <3>2, ScriptNumbers
  <2>2. QED
    BY <1>1, <2>1 DEF CacheInv, Whole
<1>7. QED
  BY <1>1, <1>3, <1>5, <1>6 DEF CacheInv, Ordered

LEMMA NextCaches ==
    ASSUME CacheInv, [Next]_vars
    PROVE  CacheInv'
<1>1. CASE World
  BY <1>1, WorldCaches
<1>2. ASSUME NEW q \in loaded, Register(q)
      PROVE  CacheInv'
  BY <1>2, RegisterCaches
<1>3. CASE Install
  BY <1>3, InstallCaches
<1>4. CASE Activate
  BY <1>4, ActivateCaches
<1>5. ASSUME NEW p \in Paths,
             (p \in Pages \cup Data /\ NetworkFirst(p)) \/ (p \in Statics /\ CacheFirst(p))
      PROVE  CacheInv'
  BY <1>5, RequestCaches
<1>6. ASSUME NEW x \in puts, Put(x)
      PROVE  CacheInv'
  BY <1>6, PutCaches
<1>7. CASE Stop
  BY <1>7, QuietCaches DEF Stop, world, worker, caches
<1>8. ASSUME NEW message \in Targets \cup {None}, Push(message)
      PROVE  CacheInv'
  BY <1>8, QuietCaches DEF Push, world, worker, caches
<1>9. ASSUME NEW n \in notes, NotificationClick(n)
      PROVE  CacheInv'
  BY <1>9, QuietCaches DEF NotificationClick, worker, caches
<1>10. CASE UNCHANGED vars
  BY <1>10, QuietCaches DEF vars
<1>11. QED
  BY <1>1, <1>2, <1>3, <1>4, <1>5, <1>6, <1>7, <1>8, <1>9, <1>10 DEF Next, Paths

LEMMA CachesCorrect == Spec => []CacheInv
BY InitCaches, NextCaches, PTL DEF Spec

(* After a new worker took over, no copy from before its release is found in *)
(* any cache (sw.js:27-37), for any paths and releases.                      *)
THEOREM OldCopiesGo == Spec => []NoOldCopies
<1>1. CacheInv => NoOldCopies
  <2> SUFFICES ASSUME CacheInv, NEW c \in CacheIds, NEW p \in Paths, store[c][p] # None
               PROVE  Script[store[c][p].rel] >= active
    BY DEF NoOldCopies
  <2>1. store[c][p] \in Copies
    BY DEF CacheInv, Types
  <2>2. Script[store[c][p].rel] >= c.of /\ c.of >= active
    BY DEF CacheInv, AllYoung, Young
  <2>3. Script[store[c][p].rel] \in Nat /\ c.of \in Nat /\ active \in Nat
    BY <2>1, ScriptNumbers DEF CacheInv, Types, Copies
  <2>4. QED
    BY <2>2, <2>3
<1>2. QED
  BY <1>1, CachesCorrect, PTL

(* The files of the installation are there together or not at all            *)
(* (sw.js:13-19), for any files and releases.                                *)
THEOREM FilesTogether == Spec => []PrecacheWhole
<1>1. CacheInv => PrecacheWhole
  <2> SUFFICES ASSUME CacheInv, active # 0, store[Static(active)][Root] # None,
                      NEW p \in Precached
               PROVE  store[Static(active)][p] # None
    BY DEF PrecacheWhole
  <2>1. Static(active) \in CacheIds /\ Static(active).kind = "static"
    BY DEF CacheInv, Types, CacheIds, Static
  <2>2. QED
    BY <2>1 DEF CacheInv, Whole
<1>2. QED
  BY <1>1, CachesCorrect, PTL
-----------------------------------------------------------------------------
(* A worker is being installed or waits exactly while there is one coming.   *)
Stages ==
    /\ stage \in {"none", "install", "waiting", "skips"}
    /\ coming = 0 <=> stage = "none"

(* The caches that are there stand in one order.                             *)
Order == created \subseteq There \X There /\ InOneOrder

(* What there is a bound of is finite.                                       *)
Counted ==
    /\ online \in BOOLEAN /\ windows \subseteq Pages /\ loaded \subseteq windows
    /\ puts \subseteq Puts /\ IsFiniteSet(puts) /\ Cardinality(puts) <= MaxPuts
    /\ notes \subseteq Targets \cup {Home} /\ IsFiniteSet(notes) /\ Cardinality(notes) <= MaxNotes

Told == reply \in Replies \cup {None}

WorkerInv == CacheInv /\ Stages /\ Order /\ Counted /\ Told

LEMMA InitWorker == Init => WorkerInv
<1> SUFFICES ASSUME Init PROVE WorkerInv
  OBVIOUS
<1>1. Stages /\ Told
  BY DEF Init, Stages, Told
<1>2. Order
  BY DEF Init, Order, There, InOneOrder
<1>3. Counted
  BY FS_EmptySet, ServiceWorkerAssumption DEF Init, Counted
<1>4. QED
  BY InitCaches, <1>1, <1>2, <1>3 DEF WorkerInv

LEMMA NextStages ==
    ASSUME CacheInv, Stages, [Next]_vars
    PROVE  Stages'
<1>1. ASSUME NEW q \in loaded, Register(q)
      PROVE  Stages'
  BY <1>1, ScriptNumbers DEF Register, Stages, CacheInv, Types
<1>2. CASE Install
  BY <1>2 DEF Install, InstallFiles, InstallNothing, Stages
<1>3. CASE Activate
  BY <1>3 DEF Activate, Stages
<1>4. CASE UNCHANGED worker
  BY <1>4 DEF worker, Stages
<1>5. QED
  BY <1>1, <1>2, <1>3, <1>4
     DEF Next, World, NetworkFirst, CacheFirst, Put, Stop, Push, NotificationClick, vars, worker

(* A cache that is opened is there already or becomes the last.              *)
LEMMA OpenedLast ==
    ASSUME Order, NEW c \in CacheIds, created' = Opened(c)
    PROVE  Order'
<1>1. CASE c \in There
  <2>1. UNCHANGED created
    BY <1>1 DEF Opened
  <2>2. QED
    BY <2>1 DEF Order, There, InOneOrder
<1>2. CASE c \notin There
  <2>1. created' = created \cup (There \cup {c}) \X {c}
    BY <1>2 DEF Opened
  <2>2. \A d, e : <<d, e>> \in created' <=> <<d, e>> \in created \/ (d \in There \cup {c} /\ e = c)
    BY <2>1
  <2>3. \A d, e : <<d, e>> \in created => d \in There /\ e \in There
    BY DEF Order
  <2>4. There' = There \cup {c}
    BY <2>2, <2>3 DEF There
  <2>5. created' \subseteq There' \X There'
    BY <2>1, <2>4 DEF Order
  <2>6. ASSUME NEW d \in There', NEW e \in There'
        PROVE  /\ <<d, e>> \in created' \/ <<e, d>> \in created'
               /\ <<d, e>> \in created' /\ <<e, d>> \in created' => d = e
               /\ \A f \in There' : <<d, e>> \in created' /\ <<e, f>> \in created' => <<d, f>> \in created'
    <3>1. d \in There \cup {c} /\ e \in There \cup {c}
      BY <2>4
    <3>2. <<d, e>> \in created' \/ <<e, d>> \in created'
      BY <2>2, <3>1 DEF Order, InOneOrder
    <3>3. <<d, e>> \in created' /\ <<e, d>> \in created' => d = e
      BY <1>2, <2>2, <2>3, <3>1 DEF Order, InOneOrder
    <3>4. ASSUME NEW f \in There', <<d, e>> \in created', <<e, f>> \in created'
          PROVE  <<d, f>> \in created'
      <4>1. CASE f = c
        BY <2>2, <3>1, <4>1
      <4>2. CASE f # c
        <5>1. <<e, f>> \in created /\ e \in There /\ f \in There
          BY <2>2, <2>3, <3>4, <4>2
        <5>2. <<d, e>> \in created /\ d \in There
          BY <1>2, <2>2, <2>3, <3>4, <5>1
        <5>3. <<d, f>> \in created
          BY <5>1, <5>2 DEF Order, InOneOrder
        <5>4. QED
          BY <2>2, <5>3
      <4>3. QED
        BY <4>1, <4>2
    <3>5. QED
      BY <3>2, <3>3, <3>4
  <2>7. QED
    BY <2>5, <2>6 DEF Order, InOneOrder
<1>3. QED
  BY <1>1, <1>2

LEMMA NextOrder ==
    ASSUME CacheInv, Stages, Order, [Next]_vars
    PROVE  Order'
<1>1. CASE Install
  <2>1. created' = Opened(Static(coming)) /\ coming # 0
    BY <1>1 DEF Install, InstallFiles, InstallNothing, Stages
  <2>2. Static(coming) \in CacheIds
    BY <2>1 DEF CacheInv, Types, CacheIds, Static
  <2>3. QED
    BY <2>1, <2>2, OpenedLast
<1>2. CASE Activate
  <2> DEFINE K == Kept(coming)
  <2>1. created' = created \cap (K \X K)
    BY <1>2 DEF Activate
  <2> HIDE DEF K
  <2>2. \A d, e : <<d, e>> \in created' <=> <<d, e>> \in created /\ d \in K /\ e \in K
    BY <2>1
  <2>3. There' = There \cap K
    BY <2>2 DEF There
  <2>4. created' \subseteq There' \X There'
    BY <2>1, <2>3 DEF Order
  <2>5. ASSUME NEW d \in There', NEW e \in There'
        PROVE  /\ <<d, e>> \in created' \/ <<e, d>> \in created'
               /\ <<d, e>> \in created' /\ <<e, d>> \in created' => d = e
               /\ \A f \in There' : <<d, e>> \in created' /\ <<e, f>> \in created' => <<d, f>> \in created'
    <3>1. d \in There /\ d \in K /\ e \in There /\ e \in K
      BY <2>3
    <3>2. <<d, e>> \in created' \/ <<e, d>> \in created'
      BY <2>2, <3>1 DEF Order, InOneOrder
    <3>3. <<d, e>> \in created' /\ <<e, d>> \in created' => d = e
      BY <2>2, <3>1 DEF Order, InOneOrder
    <3>4. ASSUME NEW f \in There', <<d, e>> \in created', <<e, f>> \in created'
          PROVE  <<d, f>> \in created'
      <4>1. f \in There /\ f \in K /\ <<d, e>> \in created /\ <<e, f>> \in created
        BY <2>2, <2>3, <3>4
      <4>2. <<d, f>> \in created
        BY <3>1, <4>1 DEF Order, InOneOrder
      <4>3. QED
        BY <2>2, <3>1, <4>1, <4>2
    <3>5. QED
      BY <3>2, <3>3, <3>4
  <2>6. QED
    BY <2>4, <2>5 DEF Order, InOneOrder
<1>3. ASSUME NEW x \in puts, Put(x)
      PROVE  Order'
  <2>1. x.into \in CacheIds
    BY DEF CacheInv, Types, Puts
  <2>2. QED
    BY <1>3, <2>1, OpenedLast DEF Put
<1>4. CASE UNCHANGED created
  BY <1>4 DEF Order, There, InOneOrder
<1>5. QED
  BY <1>1, <1>2, <1>3, <1>4
     DEF Next, World, Register, NetworkFirst, CacheFirst, Stop, Push, NotificationClick, vars, caches

(* One more, or some less, of a set with a bound.                            *)
LEMMA Bounded ==
    ASSUME NEW S, IsFiniteSet(S), NEW n \in Nat, Cardinality(S) <= n, NEW x
    PROVE  /\ IsFiniteSet(S \cup {x}) /\ (Cardinality(S) < n => Cardinality(S \cup {x}) <= n)
           /\ IsFiniteSet(S \ {x}) /\ Cardinality(S \ {x}) <= n
<1>1. Cardinality(S) \in Nat
  BY FS_CardinalityType
<1>2. /\ IsFiniteSet(S \cup {x})
      /\ Cardinality(S \cup {x}) \in {Cardinality(S), Cardinality(S) + 1}
  BY FS_AddElement
<1>3. /\ IsFiniteSet(S \ {x})
      /\ Cardinality(S \ {x}) \in {Cardinality(S), Cardinality(S) - 1}
  BY FS_RemoveElement
<1>4. QED
  BY <1>1, <1>2, <1>3

LEMMA NextCounted ==
    ASSUME CacheInv, Counted, [Next]_vars
    PROVE  Counted'
<1>1. puts' \subseteq Puts
  BY NextCaches DEF CacheInv, Types
<1>2. IsFiniteSet(puts') /\ Cardinality(puts') <= MaxPuts
  <2>1. CASE puts' = puts
    BY <2>1 DEF Counted
  <2>2. CASE puts' = {}
    BY <2>2, FS_EmptySet, ServiceWorkerAssumption
  <2>3. CASE \E x : puts' = puts \ {x}
    <3>1. PICK x : puts' = puts \ {x}
      BY <2>3
    <3>2. QED
      BY <3>1, Bounded, ServiceWorkerAssumption DEF Counted
  <2>4. CASE Cardinality(puts) < MaxPuts /\ \E x : puts' = puts \cup {x}
    <3>1. PICK x : puts' = puts \cup {x}
      BY <2>4
    <3>2. QED
      BY <2>4, <3>1, Bounded, ServiceWorkerAssumption DEF Counted
  <2>5. QED
    BY <2>1, <2>2, <2>3, <2>4
       DEF Next, World, Register, Install, Activate, NetworkFirst, CacheFirst, FromNetwork, Put, Stop,
           Push, NotificationClick, vars
<1>3. /\ notes' \subseteq Targets \cup {Home}
      /\ IsFiniteSet(notes') /\ Cardinality(notes') <= MaxNotes
  <2>1. CASE notes' = notes
    BY <2>1 DEF Counted
  <2>2. ASSUME NEW message \in Targets \cup {None}, Push(message)
        PROVE  /\ notes' \subseteq Targets \cup {Home}
               /\ IsFiniteSet(notes') /\ Cardinality(notes') <= MaxNotes
    BY <2>2, Bounded, ServiceWorkerAssumption DEF Push, Counted
  <2>3. ASSUME NEW n \in notes, NotificationClick(n)
        PROVE  /\ notes' \subseteq Targets \cup {Home}
               /\ IsFiniteSet(notes') /\ Cardinality(notes') <= MaxNotes
    BY <2>3, Bounded, ServiceWorkerAssumption DEF NotificationClick, Counted
  <2>4. QED
    BY <2>1, <2>2, <2>3
       DEF Next, World, Register, Install, Activate, NetworkFirst, CacheFirst, Put, Stop, vars
<1>4. online' \in BOOLEAN /\ windows' \subseteq Pages /\ loaded' \subseteq windows'
  <2>1. CASE World
    BY <2>1 DEF World, Deploy, Network, Load, Close, Counted
  <2>2. ASSUME NEW q \in loaded, Register(q)
        PROVE  /\ online' \in BOOLEAN
               /\ windows' \subseteq Pages /\ loaded' \subseteq windows'
    BY <2>2 DEF Register, Counted
  <2>3. ASSUME NEW n \in notes, NotificationClick(n)
        PROVE  /\ online' \in BOOLEAN
               /\ windows' \subseteq Pages /\ loaded' \subseteq windows'
    <3>1. n.page \in Pages
      BY ServiceWorkerAssumption DEF Counted, Home
    <3>2. QED
      BY <2>3, <3>1 DEF NotificationClick, Counted
  <2>4. CASE UNCHANGED <<online, windows, loaded>>
    BY <2>4 DEF Counted
  <2>5. QED
    BY <2>1, <2>2, <2>3, <2>4
       DEF Next, Install, Activate, NetworkFirst, CacheFirst, Put, Stop, Push, vars, world
<1>5. QED
  BY <1>1, <1>2, <1>3, <1>4 DEF Counted

(* What a cache answers is a copy.                                           *)
LEMMA MatchIsCopy ==
    ASSUME CacheInv, NEW p \in Paths
    PROVE  Match(p) \in Copies \cup {None}
<1> DEFINE hits == {c \in There : store[c][p] # None}
           first == {c \in hits : \A d \in hits : <<c, d>> \in created}
<1>1. CASE first = {}
  BY <1>1 DEF Match
<1>2. CASE first # {}
  <2>1. (CHOOSE c \in first : TRUE) \in CacheIds
    BY <1>2 DEF There
  <2>2. Match(p) = store[CHOOSE c \in first : TRUE][p]
    BY <1>2 DEF Match
  <2> HIDE DEF first
  <2>3. QED
    BY <2>1, <2>2 DEF CacheInv, Types
<1>3. QED
  BY <1>1, <1>2

LEMMA NextTold ==
    ASSUME CacheInv, Counted, Told, [Next]_vars
    PROVE  Told'
<1>1. ASSUME NEW p \in Paths, NEW copy \in Copies \cup {None}, Reply(p, copy)
      PROVE  Told'
  BY <1>1 DEF Reply, Replies, Told
<1>2. ASSUME NEW p \in Paths, NEW cache, FromNetwork(p, cache)
      PROVE  Told'
  BY <1>2 DEF FromNetwork, Replies, Told
<1>3. ASSUME NEW p \in Pages \cup Data, NetworkFirst(p)
      PROVE  Told'
  <2>1. p \in Paths /\ Match(p) \in Copies \cup {None} /\ Match(Root) \in Copies \cup {None}
    BY MatchIsCopy, ScriptNumbers DEF Paths
  <2>2. QED
    BY <1>1, <1>2, <1>3, <2>1 DEF NetworkFirst
<1>4. ASSUME NEW p \in Statics, CacheFirst(p)
      PROVE  Told'
  <2>1. p \in Paths /\ Match(p) \in Copies \cup {None}
    BY MatchIsCopy DEF Paths
  <2>2. CASE reply' = [path |-> p, from |-> "nowhere"]
    BY <2>1, <2>2 DEF Replies, Told
  <2>3. QED
    BY <1>1, <1>2, <1>4, <2>1, <2>2 DEF CacheFirst
<1>5. ASSUME NEW n \in notes, NotificationClick(n)
      PROVE  Told'
  <2>1. n.page \in Pages
    BY ServiceWorkerAssumption DEF Counted, Home
  <2>2. QED
    BY <1>5, <2>1 DEF NotificationClick, Replies, Told
<1>6. CASE reply' = None \/ reply' = reply
  BY <1>6 DEF Told
<1>7. QED
  BY <1>3, <1>4, <1>5, <1>6 DEF Next, World, Register, Install, Activate, Put, Stop, Push, vars

(* Workers, caches, copies and notifications keep their types and bounds,    *)
(* and the caches are there in one order whichever worker opens or deletes   *)
(* them (sw.js:12-39), for any paths, releases and bounds.                   *)
THEOREM WorkerTyped == Spec => []TypeOK
<1>1. WorkerInv => TypeOK
  BY DEF WorkerInv, CacheInv, Types, Stages, Order, Counted, Told, TypeOK
<1>2. WorkerInv /\ [Next]_vars => WorkerInv'
  BY NextCaches, NextStages, NextOrder, NextCounted, NextTold DEF WorkerInv
<1>3. QED
  BY InitWorker, <1>1, <1>2, PTL DEF Spec
=============================================================================
