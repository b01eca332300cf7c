---------------------------- MODULE ServiceWorker ----------------------------
(***************************************************************************)
(* core/static/sw.js in one browser: how it is installed and replaced,     *)
(* what it answers from the network and what from its caches, and what it  *)
(* does with notifications.                                                *)
(*                                                                         *)
(* Copies carry the release of the server they were made at.  A handler    *)
(* runs to the answer in one step, except that the copy it makes is put    *)
(* into the cache later, unwatched: the handler does not wait for          *)
(* caches.open().then(put).  The browser may stop the worker in between,   *)
(* and ends the old worker when the new one takes over.  Requests wait     *)
(* while a worker activates, so that is one step too.                      *)
(***************************************************************************)
EXTENDS Naturals, FiniteSets

CONSTANTS
    Pages,        \* requests for HTML
    Statics,      \* requests under /static/
    Data,         \* requests under /api/, and all the others
    Root,         \* '/'
    Precached,    \* STATIC_FILES
    MaxRelease,   \* bound: releases of the server
    Script,       \* [1..MaxRelease -> Nat]  the sw.js of a release, numbered
                  \* as its cache names are ('preceptly-static-v2')
    MaxPuts,      \* bound: copies on their way into a cache
    Targets,      \* addresses the server puts into a push message
    MaxNotes,     \* bound: notifications on the screen
    None

Paths == Pages \cup Statics \cup Data
Releases == 1..MaxRelease

ASSUME ServiceWorkerAssumption ==
    /\ MaxRelease \in Nat \ {0} /\ MaxPuts \in Nat /\ MaxNotes \in Nat
    /\ Script \in [Releases -> Nat \ {0}]
    /\ \A r \in Releases \ {1} : Script[r - 1] <= Script[r]
    /\ Root \in Pages /\ Root \in Precached /\ Root \notin Statics
    /\ Precached \subseteq {Root} \cup Statics
    /\ Targets \subseteq [absolute : BOOLEAN, page : Pages]

VARIABLES
    release,   \* the release that is deployed
    online,    \* requests reach the server
    windows,   \* pages that are open in a window
    loaded,    \* of these, the ones that have not called register() since
               \* they were loaded
    active,    \* the active worker's script, 0 if there is none
    coming,    \* the script of the worker being installed, 0 if there is none
    stage,     \* "none"; "install"; "waiting" or "skips": installed
    created,   \* <<c, d>>: both caches are there, c was created no later than d
    store,     \* [CacheIds -> [Paths -> Copies \cup {None}]]
    puts,      \* copies on their way
    notes,     \* notifications on the screen: the address in data.url
    reply      \* what the last step answered, None if it was no request

Scripts == {Script[r] : r \in Releases}
CacheIds == [kind : {"static", "dynamic"}, of : Scripts]
Static(s) == [kind |-> "static", of |-> s]
Dynamic(s) == [kind |-> "dynamic", of |-> s]

(* "moved": the answer of a redirect that was followed, which the browser  *)
(* refuses for a page; "ok": any other, an error of the server included.   *)
Copies == [rel : Releases, is : {"ok", "moved"}]

Puts == [into : CacheIds, path : Paths, copy : Copies]
Replies == [path : Paths, from : {"network", "cache", "nowhere"}]
           \cup [page : Pages, does : {"focus", "openWindow"}]

ASSUME NoneAssumption == None \notin Copies \cup Replies

(* A notification without an address of its own leads to '/'.              *)
Home == [absolute |-> FALSE, page |-> Root]

vars == <<release, online, windows, loaded, active, coming, stage, created, store, puts, notes, reply>>
world == <<release, online, windows, loaded>>
worker == <<active, coming, stage>>
caches == <<created, store>>

There == {c \in CacheIds : <<c, c>> \in created}
InOneOrder == \A c, d \in There :
    /\ <<c, d>> \in created \/ <<d, c>> \in created
    /\ <<c, d>> \in created /\ <<d, c>> \in created => c = d
    /\ \A e \in There : <<c, d>> \in created /\ <<d, e>> \in created => <<c, e>> \in created

TypeOK ==
    /\ release \in Releases
    /\ online \in BOOLEAN /\ windows \subseteq Pages /\ loaded \subseteq windows
    /\ active \in Scripts \cup {0}
    /\ coming \in Scripts \cup {0}
    /\ stage \in {"none", "install", "waiting", "skips"}
    /\ created \subseteq There \X There /\ InOneOrder
    /\ store \in [CacheIds -> [Paths -> Copies \cup {None}]]
    /\ puts \subseteq Puts /\ Cardinality(puts) <= MaxPuts
    /\ notes \subseteq Targets \cup {Home} /\ Cardinality(notes) <= MaxNotes
    /\ reply \in Replies \cup {None}

Empty == [p \in Paths |-> None]

Init ==
    /\ release = 1 /\ online = TRUE /\ windows = {Root} /\ loaded = {Root}
    /\ active = 0 /\ coming = 0 /\ stage = "none"
    /\ created = {} /\ store = [c \in CacheIds |-> Empty]
    /\ puts = {} /\ notes = {} /\ reply = None
-----------------------------------------------------------------------------
(* The world around the worker.                                            *)
Deploy ==
    /\ release < MaxRelease
    /\ release' = release + 1
    /\ UNCHANGED <<online, windows, loaded>>

Network ==
    /\ online' = ~online
    /\ UNCHANGED <<release, windows, loaded>>

(* A page is opened, or loaded again in its window.                        *)
Load(p) ==
    /\ windows' = windows \cup {p} /\ loaded' = loaded \cup {p}
    /\ UNCHANGED <<release, online>>

Close(p) ==
    /\ p \in windows
    /\ windows' = windows \ {p} /\ loaded' = loaded \ {p}
    /\ UNCHANGED <<release, online>>

World ==
    /\ \/ Deploy \/ Network
       \/ \E p \in Pages : Load(p) \/ Close(p)
    /\ reply' = None
    /\ UNCHANGED <<worker, caches, puts, notes>>
-----------------------------------------------------------------------------
(* caches.open: the cache is created if it is not there.                   *)
Opened(c) == IF c \in There THEN created ELSE created \cup (There \cup {c}) \X {c}

(* caches.match: the first cache, in the order of creation, with a copy.   *)
Match(p) ==
    LET hits == {c \in There : store[c][p] # None}
        first == {c \in hits : \A d \in hits : <<c, d>> \in created}
    IN IF first = {} THEN None ELSE store[CHOOSE c \in first : TRUE][p]

(* A page that has loaded calls register(), once (base.html:884-895).  The *)
(* browser fetches sw.js past its HTTP cache and starts a worker if the    *)
(* script is another one; without a network the call comes to nothing.     *)
Register(p) ==
    /\ p \in loaded /\ loaded' = loaded \ {p}
    /\ IF online /\ Script[release] \notin {active, coming}
       THEN coming' = Script[release] /\ stage' = "install"
       ELSE UNCHANGED <<coming, stage>>
    /\ reply' = None
    /\ UNCHANGED <<release, online, windows, active, caches, puts, notes>>

(* install: addAll stores every file or, if one is not reached or not ok,  *)
(* none; the failure is swallowed, so the worker is installed either way,  *)
(* and skips waiting.                                                      *)
(* addAll follows redirects: for someone who is signed in '/' is the       *)
(* dashboard (core/views.py:50-53).                                        *)
Fetched(p, signedIn) == [rel |-> release, is |-> IF p = Root /\ signedIn THEN "moved" ELSE "ok"]

\* mutant: the files are stored one by one, as far as they come
InstallSingly ==
    /\ stage = "install" /\ online
    /\ created' = Opened(Static(coming))
    /\ \E signedIn \in BOOLEAN, got \in SUBSET Precached :
          store' = [store EXCEPT ![Static(coming)] =
             [p \in Paths |-> IF p \in got THEN Fetched(p, signedIn) ELSE @[p]]]

InstallFiles ==
    /\ stage = "install" /\ online
    /\ created' = Opened(Static(coming))
    /\ \E signedIn \in BOOLEAN :
          store' = [store EXCEPT ![Static(coming)] =
             [p \in Paths |-> IF p \in Precached THEN Fetched(p, signedIn) ELSE @[p]]]

InstallNothing ==
    /\ stage = "install"
    /\ created' = Opened(Static(coming))
    /\ UNCHANGED store

\* mutant: the new worker waits
InstallAndWait ==
    /\ InstallFiles \/ InstallNothing
    /\ stage' = "waiting"
    /\ reply' = None
    /\ UNCHANGED <<world, active, coming, puts, notes>>

Install ==
    /\ InstallFiles \/ InstallNothing
    /\ stage' = "skips"
    /\ reply' = None
    /\ UNCHANGED <<world, active, coming, puts, notes>>

(* activate: the worker takes over - if it did not skip waiting, only once *)
(* no page is open -, deletes the caches of other names and claims the     *)
(* open pages.                                                             *)
\* mutant: only the static cache is renewed
KeptDynamic(s) == {Static(s)} \cup {Dynamic(t) : t \in Scripts}

Kept(s) == {Static(s), Dynamic(s)}

Activate ==
    /\ stage = "skips" \/ (stage = "waiting" /\ windows = {})
    /\ active' = coming /\ coming' = 0 /\ stage' = "none"
    /\ created' = created \cap (Kept(coming) \X Kept(coming))
    /\ store' = [c \in CacheIds |-> IF c \in Kept(coming) THEN store[c] ELSE Empty]
    /\ puts' = {} /\ reply' = None
    /\ UNCHANGED <<world, notes>>
-----------------------------------------------------------------------------
(* The browser refuses a followed redirect for a page.                     *)
Reply(p, copy) ==
    reply' = [path |-> p,
              from |-> IF copy = None \/ (p \in Pages /\ copy.is = "moved") THEN "nowhere" ELSE "cache"]

(* Whatever the server answers now is passed on, and a copy of it is made. *)
FromNetwork(p, cache) ==
    /\ online
    /\ Cardinality(puts) < MaxPuts
    /\ reply' = [path |-> p, from |-> "network"]
    /\ puts' = puts \cup {[into |-> cache, path |-> p, copy |-> [rel |-> release, is |-> "ok"]]}

(* Pages, /api/ and the rest: the network first.  Without an answer the    *)
(* cached copy; for a page that has none, the cached '/'.                  *)
NetworkFirst(p) ==
    /\ p \in Pages \cup Data
    /\ active # 0 /\ windows # {}
    /\ \/ FromNetwork(p, Dynamic(active))
       \/ /\ ~online
          /\ Reply(p, IF p \in Pages /\ Match(p) = None THEN Match(Root) ELSE Match(p))
          /\ UNCHANGED puts
    /\ UNCHANGED <<world, worker, caches, notes>>

(* /static/: the cached copy first, then the network.                      *)
CacheFirst(p) ==
    /\ p \in Statics
    /\ active # 0 /\ windows # {}
    /\ \/ Match(p) # None /\ Reply(p, Match(p)) /\ UNCHANGED puts
       \/ Match(p) = None /\ FromNetwork(p, Static(active))
       \/ /\ Match(p) = None /\ ~online
          /\ reply' = [path |-> p, from |-> "nowhere"]
          /\ UNCHANGED puts
    /\ UNCHANGED <<world, worker, caches, notes>>

(* cache.put, in whatever order.                                           *)
Put(x) ==
    /\ created' = Opened(x.into)
    /\ store' = [store EXCEPT ![x.into][x.path] = x.copy]
    /\ puts' = puts \ {x} /\ reply' = None
    /\ UNCHANGED <<world, worker, notes>>

(* The browser stops the idle worker.                                      *)
Stop ==
    /\ puts # {} /\ puts' = {} /\ reply' = None
    /\ UNCHANGED <<world, worker, caches, notes>>
-----------------------------------------------------------------------------
(* push: a message without data, with text, or with JSON that names no     *)
(* address keeps the '/' of the payload it starts from.                    *)
\* mutant: what the message names replaces the address it starts from
PushAsIs(message) ==
    /\ active # 0
    /\ notes' = notes \cup {message}
    /\ Cardinality(notes') <= MaxNotes
    /\ reply' = None
    /\ UNCHANGED <<world, worker, caches, puts>>

Push(message) ==
    /\ active # 0
    /\ notes' = notes \cup {IF message = None THEN Home ELSE message}
    /\ Cardinality(notes') <= MaxNotes
    /\ reply' = None
    /\ UNCHANGED <<world, worker, caches, puts>>

(* notificationclick: a window is focused if its address, which is         *)
(* absolute, equals the one of the notification, which may not be.         *)
Matches(n) == n.absolute /\ n.page \in windows

NotificationClick(n) ==
    /\ notes' = notes \ {n}
    /\ windows' = windows \cup {n.page}
    /\ loaded' = IF Matches(n) THEN loaded ELSE loaded \cup {n.page}
    /\ reply' = [page |-> n.page, does |-> IF Matches(n) THEN "focus" ELSE "openWindow"]
    /\ UNCHANGED <<release, online, worker, caches, puts>>

Next ==
    \/ World
    \/ \E p \in loaded : Register(p)
    \/ Install \/ Activate
    \/ \E p \in Pages \cup Data : NetworkFirst(p)
    \/ \E p \in Statics : CacheFirst(p)
    \/ \E x \in puts : Put(x)
    \/ Stop
    \/ \E message \in Targets \cup {None} : Push(message)
    \/ \E n \in notes : NotificationClick(n)

(* A page that has loaded calls register(), and the browser carries out    *)
(* what it has begun; users, deployments and the network owe nothing.      *)
Spec == /\ Init /\ [][Next]_vars
        /\ WF_vars(\E p \in loaded : Register(p)) /\ WF_vars(Install) /\ WF_vars(Activate)
-----------------------------------------------------------------------------
(* "Delete old caches" (sw.js:27): no copy from before the release that    *)
(* brought the active worker is left where a request could find it.        *)
NoOldCopies ==
    \A c \in CacheIds, p \in Paths :
        store[c][p] # None => Script[store[c][p].rel] >= active

(* The files of the installation are there together or not at all          *)
(* (sw.js:13-19), whatever is fetched, installed and deleted around them.  *)
PrecacheWhole ==
    active # 0 /\ store[Static(active)][Root] # None =>
        \A p \in Precached : store[Static(active)][p] # None

(* skipWaiting (sw.js:24): if the network stays and a page stays open that *)
(* is loaded again and again, the newest script gets active although       *)
(* nobody closes a page.                                                   *)
NewestTakesOver ==
    \A p \in Pages : <>[](online /\ p \in windows) /\ []<>(p \in loaded)
                        => <>[](active = Script[release])
=============================================================================
