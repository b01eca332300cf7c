---------------------------- MODULE BookingProofs ----------------------------
(***************************************************************************)
(* For any calendar, students, lessons and series: the types, also when    *)
(* requests overlap; and, one request after the other, that no two checked *)
(* lessons are too near each other, that the archive is true, that series  *)
(* follow their templates and that no lesson vanishes without a trace.     *)
(***************************************************************************)
EXTENDS Booking, FiniteSetTheorems, WellFoundedInduction, TLAPS

(* Numbers.                                                                *)
LEMMA LeastDay ==
    ASSUME NEW S \in SUBSET Nat, S # {}
    PROVE  Min(S) \in S /\ \A d \in S : Min(S) <= d
<1>1. IsWellFoundedOn(OpToRel(<, Nat), Nat)
  BY NatLessThanWellFounded
<1>2. PICK x \in S : \A y \in S : ~(<<y, x>> \in OpToRel(<, Nat))
  BY <1>1, WFMin
<1>3. \A y \in S : x <= y
  <2> SUFFICES ASSUME NEW y \in S, y < x PROVE FALSE
    OBVIOUS
  <2>1. <<y, x>> \in Nat \X Nat /\ <<y, x>>[1] < <<y, x>>[2]
    OBVIOUS
  <2>2. <<y, x>> \in OpToRel(<, Nat)
    BY <2>1 DEF OpToRel
  <2>3. QED
    BY <1>2, <2>2
<1>4. QED
  BY <1>3 DEF Min

LEMMA PartCount ==
    ASSUME NEW S \in SUBSET Days, NEW d \in S
    PROVE  /\ Cardinality(S) \in Nat
           /\ Cardinality({e \in S : e <= d}) \in 1..Cardinality(S)
<1>1. IsFiniteSet(Days)
  BY FS_Interval, BookingAssumption DEF Days
<1>2. IsFiniteSet(S) /\ Cardinality(S) \in Nat
  BY <1>1, FS_Subset, FS_CardinalityType
<1> DEFINE part == {e \in S : e <= d}
<1>3. IsFiniteSet(part) /\ Cardinality(part) <= Cardinality(S) /\ Cardinality(part) \in Nat
  BY <1>2, FS_Subset, FS_CardinalityType
<1>4. d \in part
  BY BookingAssumption DEF Days
<1>5. Cardinality(part) # 0
  BY <1>3, <1>4, FS_EmptySet
<1>6. QED
  BY <1>2, <1>3, <1>5

(* The present day does not go back.                                       *)
LEMMA LaterDay ==
    ASSUME now \in Nat, now' = now + 1
    PROVE  Today \in Nat /\ Today' \in Nat /\ Today <= Today'
<1> DEFINE n == MaxTime
           k == now - 1
<1>1. n \in Nat \ {0}
  BY BookingAssumption
<1>2. CASE now = 0
  BY <1>1, <1>2 DEF Today
<1>3. CASE now # 0
  <2>1. k \in Nat /\ k + 1 = now' - 1 /\ now' # 0
    BY <1>3
  <2> HIDE DEF n, k
  <2>2. /\ k \div n \in Nat /\ k % n \in 0..(n - 1) /\ k = n * (k \div n) + (k % n)
        /\ (k + 1) \div n \in Nat /\ (k + 1) % n \in 0..(n - 1)
        /\ k + 1 = n * ((k + 1) \div n) + ((k + 1) % n)
    BY <1>1, <2>1
  <2>3. k \div n <= (k + 1) \div n
    BY <1>1, <2>1, <2>2
  <2>4. Today = 1 + (k \div n) /\ Today' = 1 + ((k + 1) \div n)
    BY <1>3, <2>1 DEF Today, n, k
  <2>5. QED
    BY <2>2, <2>3, <2>4
<1>4. QED
  BY <1>2, <1>3
-----------------------------------------------------------------------------
(* Rows                                                                    *)
LEMMA NewRow ==
    ASSUME NEW c \in Contracts, NEW s \in Slots, NEW r \in SeriesIds \cup {None}, NEW check \in BOOLEAN
    PROVE  /\ New(c, s, r, check) \in Lesson
           /\ New(c, s, r, check).contract = c /\ New(c, s, r, check).slot = s
           /\ New(c, s, r, check).series = r /\ New(c, s, r, check).checked = check
BY DEF New, Lesson

LEMMA MovedRow ==
    ASSUME NEW row \in Lesson, NEW s \in Slots, NEW check \in BOOLEAN
    PROVE  /\ Moved(row, s, check) \in Lesson
           /\ Moved(row, s, check).slot = s /\ Moved(row, s, check).series = None
           /\ Moved(row, s, check).checked = check
BY DEF Moved, Lesson

\* only the status changes, and not to planned
LEMMA UpdatedRow ==
    ASSUME NEW row \in Lesson
    PROVE  /\ Updated(row) \in Lesson
           /\ Updated(row).contract = row.contract /\ Updated(row).slot = row.slot
           /\ Updated(row).series = row.series /\ Updated(row).checked = row.checked
           /\ Updated(row).status = "planned" => row.status = "planned"
BY DEF Updated, Lesson

LEMMA SeriesRow ==
    ASSUME NEW row \in Series
    PROVE  /\ row.contract \in Contracts /\ row.time \in Times /\ row.active \in BOOLEAN
           /\ row.days \in SUBSET Days /\ row.days # {}
           /\ row.days \in SUBSET Nat
           /\ \A d \in Days : /\ SlotOn(row, d) \in Slots
                              /\ SlotOn(row, d).day = d /\ SlotOn(row, d).time = row.time
           /\ row # None
BY NoneAssumption, BookingAssumption DEF Series, SlotOn, Slots, Days
-----------------------------------------------------------------------------
(* What happens to the table of lessons.                                   *)
LEMMA Inserted ==
    ASSUME TypeOK, NEW row \in Lesson, Insert(row)
    PROVE  /\ booked' = booked + 1 /\ booked + 1 \in LessonIds /\ booked' \in 0..MaxLessons
           /\ lessons' \in [LessonIds -> Lesson \cup {None}]
           /\ lessons[booked + 1] = None /\ lessons'[booked + 1] = row
           /\ \A l \in LessonIds : l # booked + 1 => lessons'[l] = lessons[l]
<1>1. /\ booked + 1 <= MaxLessons /\ booked' = booked + 1
      /\ lessons' = [lessons EXCEPT ![booked + 1] = row]
  BY DEF Insert, Room
<1>2. /\ lessons \in [LessonIds -> Lesson \cup {None}] /\ booked \in 0..MaxLessons
      /\ \A l \in LessonIds : lessons[l] # None => l <= booked
  BY DEF TypeOK
<1>3. booked + 1 \in LessonIds /\ booked' \in 0..MaxLessons
  BY <1>1, <1>2, BookingAssumption DEF LessonIds
<1>4. lessons[booked + 1] = None
  BY <1>2, <1>3, BookingAssumption
<1>5. QED
  BY <1>1, <1>2, <1>3, <1>4

LEMMA Replaced ==
    ASSUME TypeOK, NEW k \in LessonIds, NEW row \in Lesson, lessons' = [lessons EXCEPT ![k] = row]
    PROVE  /\ lessons' \in [LessonIds -> Lesson \cup {None}]
           /\ lessons'[k] = row
           /\ \A l \in LessonIds : l # k => lessons'[l] = lessons[l]
BY DEF TypeOK

LEMMA Deleted ==
    ASSUME TypeOK, NEW ids, lessons' = Without(ids)
    PROVE  /\ lessons' \in [LessonIds -> Lesson \cup {None}]
           /\ \A l \in LessonIds : lessons'[l] = IF l \in ids THEN None ELSE lessons[l]
BY DEF TypeOK, Without

\* what the type invariant says of the table
LessonsTyped ==
    /\ lessons \in [LessonIds -> Lesson \cup {None}]
    /\ booked \in 0..MaxLessons
    /\ \A l \in LessonIds : lessons[l] # None => l <= booked
    /\ \A l \in LessonIds : lessons[l] # None =>
          lessons[l].series = None \/ series[lessons[l].series] # None
OthersTyped ==
    /\ series \in [SeriesIds -> Series \cup {None}]
    /\ blocked \subseteq Slots
    /\ now \in 0..MaxNow
    /\ archive \in [LessonIds -> Nat]
ReqTyped == req \in [Requests -> Request \cup {None}]

LEMMA TypeParts == TypeOK <=> LessonsTyped /\ OthersTyped /\ ReqTyped
BY DEF TypeOK, LessonsTyped, OthersTyped, ReqTyped

\* a series that was there is there still
Lasting == \A r \in SeriesIds : series[r] # None => series'[r] # None

LEMMA KeptTypes ==
    ASSUME TypeOK, UNCHANGED <<lessons, booked>>, Lasting
    PROVE  LessonsTyped'
<1>1. \A l \in LessonIds : lessons[l] # None =>
         lessons[l].series = None \/ (lessons[l].series \in SeriesIds /\ series[lessons[l].series] # None)
  BY DEF TypeOK, Lesson
<1>2. QED
  BY <1>1 DEF TypeOK, LessonsTyped, Lasting

LEMMA InsertTypes ==
    ASSUME TypeOK, NEW row \in Lesson, Insert(row), Lasting,
           row.series = None \/ series'[row.series] # None
    PROVE  LessonsTyped'
<1>1. \A l \in LessonIds : lessons[l] # None =>
         /\ l <= booked
         /\ lessons[l].series = None \/ (lessons[l].series \in SeriesIds /\ series[lessons[l].series] # None)
  BY DEF TypeOK, Lesson
<1>2. \A l \in LessonIds : lessons'[l] # None => l <= booked'
  BY <1>1, Inserted, BookingAssumption DEF TypeOK, LessonIds
<1>3. \A l \in LessonIds : lessons'[l] # None =>
         lessons'[l].series = None \/ series'[lessons'[l].series] # None
  BY <1>1, Inserted DEF Lasting
<1>4. QED
  BY <1>2, <1>3, Inserted DEF LessonsTyped

LEMMA ReplaceTypes ==
    ASSUME TypeOK, NEW k \in LessonIds, NEW row \in Lesson, lessons' = [lessons EXCEPT ![k] = row],
           UNCHANGED <<booked, series>>, k <= booked, row.series = None
    PROVE  LessonsTyped'
<1>1. \A l \in LessonIds : lessons'[l] # None => l <= booked'
  BY Replaced DEF TypeOK
<1>2. \A l \in LessonIds : lessons'[l] # None =>
         lessons'[l].series = None \/ series'[lessons'[l].series] # None
  BY Replaced DEF TypeOK
<1>3. QED
  BY <1>1, <1>2, Replaced DEF LessonsTyped, TypeOK

\* deleting a series takes with it what is linked to it
LEMMA DeleteTypes ==
    ASSUME TypeOK, NEW ids, lessons' = Without(ids), UNCHANGED booked,
           \A r \in SeriesIds : series[r] # None => series'[r] # None \/ LinkedTo(r) \subseteq ids
    PROVE  LessonsTyped'
<1>1. \A l \in LessonIds : lessons'[l] # None => lessons'[l] = lessons[l] /\ l \notin ids
  BY Deleted
<1>2. ASSUME NEW l \in LessonIds, lessons'[l] # None, lessons'[l].series # None
      PROVE  series'[lessons'[l].series] # None
  <2> DEFINE r == lessons[l].series
  <2>1. r \in SeriesIds /\ series[r] # None /\ l \in LinkedTo(r) /\ lessons'[l].series = r
    BY <1>1, <1>2 DEF TypeOK, Lesson, LinkedTo, Present
  <2>2. QED
    BY <1>1, <1>2, <2>1
<1>3. QED
  BY <1>1, <1>2, Deleted DEF LessonsTyped, TypeOK
-----------------------------------------------------------------------------
(* Requests                                                                *)
Others(q) == \A p \in Requests \ {q} : req'[p] = req[p]

LEMMA Began ==
    ASSUME TypeOK, NEW q \in Requests, NEW r \in Request, Begin(q, r)
    PROVE  /\ Quiet /\ Idle(q) /\ ReqTyped' /\ Others(q)
           /\ req'[q] = r /\ ~Idle(q)'
BY NoneAssumption DEF Begin, TypeOK, ReqTyped, Others, Idle

LEMMA Ended ==
    ASSUME TypeOK, NEW q \in Requests, End(q)
    PROVE  ReqTyped' /\ Others(q) /\ req'[q] = None /\ Idle(q)'
BY DEF End, TypeOK, ReqTyped, Others, Idle

(* What a request has read.                                                *)
LEMMA RequestFields ==
    ASSUME TypeOK, NEW q \in Requests
    PROVE  /\ Is(q, "book") => req[q].contract \in Contracts /\ req[q].slot \in Slots
           /\ Is(q, "cancel") => req[q].id \in LessonIds
           /\ Is(q, "move") => /\ req[q].id \in LessonIds /\ req[q].row \in Lesson
                               /\ req[q].slot \in Slots
           /\ Is(q, "series") =>
                 /\ req[q].id \in SeriesIds /\ req[q].row \in Series
                 /\ req[q].todo \subseteq Days /\ req[q].taken \subseteq Slots
                 /\ req[q].created \subseteq Days /\ req[q].skipped \subseteq Days
                 /\ req[q].by \in {"family", "tutor", "form"}
           /\ Is(q, "end") => /\ req[q].id \in SeriesIds /\ req[q].row \in Series
                              /\ req[q].dropped \subseteq LessonIds
<1>1. Is(q, "book") \/ Is(q, "cancel") \/ Is(q, "move") \/ Is(q, "series") \/ Is(q, "end") =>
          req[q] \in Request
  BY DEF TypeOK, Is, Idle
<1>2. Is(q, "book") => req[q].contract \in Contracts /\ req[q].slot \in Slots
  BY <1>1 DEF Is, Request
<1>3. Is(q, "cancel") => req[q].id \in LessonIds
  BY <1>1 DEF Is, Request
<1>4. Is(q, "move") => req[q].id \in LessonIds /\ req[q].row \in Lesson /\ req[q].slot \in Slots
  BY <1>1 DEF Is, Request
<1>5. Is(q, "series") =>
          /\ req[q].id \in SeriesIds /\ req[q].row \in Series
          /\ req[q].todo \subseteq Days /\ req[q].taken \subseteq Slots
          /\ req[q].created \subseteq Days /\ req[q].skipped \subseteq Days
          /\ req[q].by \in {"family", "tutor", "form"}
  BY <1>1 DEF Is, Request
<1>6. Is(q, "end") => /\ req[q].id \in SeriesIds /\ req[q].row \in Series
                      /\ req[q].dropped \subseteq LessonIds
  BY <1>1 DEF Is, Request
<1>7. QED
  BY <1>2, <1>3, <1>4, <1>5, <1>6

LEMMA TakenSlots ==
    ASSUME NEW row \in Series, NEW by
    PROVE  /\ Taken(row, by) \subseteq Slots
           /\ \A d \in row.days : Busy(SlotOn(row, d), {}) => SlotOn(row, d) \in Taken(row, by)
BY SeriesRow DEF Taken, Refused

(* A series request begins with all its days to do.                        *)
LEMMA SeriesBegan ==
    ASSUME TypeOK, NEW q \in Requests, NEW r \in SeriesIds, NEW row \in Series,
           NEW by \in {"family", "tutor", "form"}, SeriesBegin(q, r, row, by)
    PROVE  /\ Quiet /\ Idle(q) /\ ReqTyped' /\ Others(q) /\ ~Idle(q)'
           /\ req'[q].op = "series" /\ req'[q].id = r /\ req'[q].row = row
           /\ req'[q].todo = row.days /\ req'[q].taken = Taken(row, by)
           /\ req'[q].created = {} /\ req'[q].skipped = {} /\ req'[q].by = by
<1> DEFINE new == [op |-> "series", id |-> r, row |-> row, todo |-> row.days,
                   taken |-> Taken(row, by), created |-> {}, skipped |-> {}, by |-> by]
<1>1. new \in Request
  BY SeriesRow, TakenSlots DEF Request
<1>2. Begin(q, new)
  BY DEF SeriesBegin
<1>3. /\ new.op = "series" /\ new.id = r /\ new.row = row
      /\ new.todo = row.days /\ new.taken = Taken(row, by)
      /\ new.created = {} /\ new.skipped = {} /\ new.by = by
  OBVIOUS
<1> HIDE DEF new
<1>4. QED
  BY <1>1, <1>2, <1>3, Began

(* The next day of a series.                                               *)
LEMMA NextDay ==
    ASSUME TypeOK, NEW q \in Requests, Is(q, "series"), req[q].todo # {}
    PROVE  Min(req[q].todo) \in req[q].todo /\ Min(req[q].todo) \in Days
<1>1. req[q].todo \subseteq Days /\ Days \subseteq Nat
  BY RequestFields, BookingAssumption DEF Days
<1>2. QED
  BY <1>1, LeastDay
-----------------------------------------------------------------------------
(* The types, whatever overlaps.                                           *)
MovesKnown == \A q \in Requests : Is(q, "move") => req[q].id <= booked
TypeInv == TypeOK /\ MovesKnown

LEMMA TypesKept ==
    ASSUME TypeInv, NEW q \in Requests, LessonsTyped', OthersTyped', ReqTyped', booked <= booked',
           Others(q), Is(q, "move")' => req'[q].id <= booked'
    PROVE  TypeInv'
<1>1. TypeOK'
  BY TypeParts, PTL
<1>2. ASSUME NEW p \in Requests, Is(p, "move")' PROVE req'[p].id <= booked'
  <2>1. CASE p = q
    BY <1>2, <2>1
  <2>2. CASE p # q
    <3>1. req'[p] = req[p]
      BY <2>2 DEF Others
    <3>2. Is(p, "move")
      BY <1>2, <3>1 DEF Is, Idle
    <3>3. req[p].id <= booked /\ req[p].id \in Nat
      BY <3>2, RequestFields, BookingAssumption DEF TypeInv, MovesKnown, LessonIds
    <3>4. booked \in Nat /\ booked' \in Nat
      BY BookingAssumption DEF TypeInv, TypeOK, LessonsTyped
    <3>5. QED
      BY <3>1, <3>3, <3>4
  <2>3. QED
    BY <2>1, <2>2
<1>3. QED
  BY <1>1, <1>2 DEF TypeInv, MovesKnown

\* when no request takes a step
LEMMA TypesWithout ==
    ASSUME TypeInv, LessonsTyped', OthersTyped', UNCHANGED req, booked <= booked'
    PROVE  TypeInv'
<1>1. ReqTyped'
  BY DEF TypeInv, TypeOK, ReqTyped
<1>2. TypeOK'
  BY <1>1, TypeParts, PTL
<1>3. ASSUME NEW p \in Requests, Is(p, "move")' PROVE req'[p].id <= booked'
  <2>1. Is(p, "move") /\ req'[p] = req[p]
    BY <1>3 DEF Is, Idle
  <2>2. req[p].id <= booked /\ req[p].id \in Nat
    BY <2>1, RequestFields, BookingAssumption DEF TypeInv, MovesKnown, LessonIds
  <2>3. booked \in Nat /\ booked' \in Nat
    BY BookingAssumption DEF TypeInv, TypeOK, LessonsTyped
  <2>4. QED
    BY <2>1, <2>2, <2>3
<1>4. QED
  BY <1>2, <1>3 DEF TypeInv, MovesKnown

LEMMA TypesInit == Init => TypeInv
<1> SUFFICES ASSUME Init PROVE TypeInv
  OBVIOUS
<1>1. \A q \in Requests : req[q] = None
  BY DEF Init
<1>2. TypeOK
  BY BookingAssumption DEF Init, TypeOK
<1>3. QED
  BY <1>1, <1>2 DEF TypeInv, MovesKnown, Is, Idle

LEMMA TypesBegin ==
    ASSUME TypeInv, NEW q \in Requests, NEW r \in Request, Begin(q, r),
           UNCHANGED <<lessons, booked, series, blocked, now, archive>>,
           r.op = "move" => r.id <= booked
    PROVE  TypeInv'
<1>1. TypeOK
  BY DEF TypeInv
<1>2. LessonsTyped'
  BY <1>1, KeptTypes DEF Lasting
<1>3. OthersTyped'
  BY <1>1 DEF TypeOK, OthersTyped
<1>4. booked <= booked'
  BY <1>1, BookingAssumption DEF TypeOK
<1>5. QED
  BY <1>1, <1>2, <1>3, <1>4, Began, TypesKept DEF Is

LEMMA TypesBookBegin ==
    ASSUME TypeInv, NEW q \in Requests, NEW c \in Contracts, NEW s \in Slots, BookBegin(q, c, s)
    PROVE  TypeInv'
<1> DEFINE r == [op |-> "book", contract |-> c, slot |-> s]
<1>1. r \in Request /\ r.op = "book"
  BY DEF Request
<1>2. Begin(q, r) /\ UNCHANGED <<lessons, booked, series, blocked, now, archive>>
  BY DEF BookBegin
<1> HIDE DEF r
<1>3. QED
  BY <1>1, <1>2, TypesBegin

LEMMA TypesCancelBegin ==
    ASSUME TypeInv, NEW q \in Requests, NEW l \in LessonIds, CancelBegin(q, l)
    PROVE  TypeInv'
<1> DEFINE r == [op |-> "cancel", id |-> l]
<1>1. r \in Request /\ r.op = "cancel"
  BY DEF Request
<1>2. Begin(q, r) /\ UNCHANGED <<lessons, booked, series, blocked, now, archive>>
  BY DEF CancelBegin
<1> HIDE DEF r
<1>3. QED
  BY <1>1, <1>2, TypesBegin

LEMMA TypesMoveBegin ==
    ASSUME TypeInv, NEW q \in Requests, NEW l \in LessonIds, NEW s \in Slots, MoveBegin(q, l, s)
    PROVE  TypeInv'
<1> DEFINE r == [op |-> "move", id |-> l, row |-> lessons[l], slot |-> s]
<1>1. lessons[l] \in Lesson /\ l <= booked
  BY DEF MoveBegin, TypeInv, TypeOK
<1>2. r \in Request /\ r.id = l
  BY <1>1 DEF Request
<1>3. Begin(q, r) /\ UNCHANGED <<lessons, booked, series, blocked, now, archive>>
  BY DEF MoveBegin
<1> HIDE DEF r
<1>4. QED
  BY <1>1, <1>2, <1>3, TypesBegin

LEMMA TypesEndBegin ==
    ASSUME TypeInv, NEW q \in Requests, NEW r \in SeriesIds, EndBegin(q, r)
    PROVE  TypeInv'
<1> DEFINE e == [op |-> "end", id |-> r, row |-> series[r], dropped |-> Upcoming(LinkedTo(r))]
<1>1. series[r] \in Series
  BY DEF EndBegin, TypeInv, TypeOK
<1>2. Upcoming(LinkedTo(r)) \subseteq LessonIds
  BY DEF Upcoming, LinkedTo, Present
<1>3. e \in Request /\ e.op = "end"
  BY <1>1, <1>2 DEF Request
<1>4. Begin(q, e) /\ UNCHANGED <<lessons, booked, series, blocked, now, archive>>
  BY DEF EndBegin
<1> HIDE DEF e
<1>5. QED
  BY <1>3, <1>4, TypesBegin

LEMMA TypesSeriesCreate ==
    ASSUME TypeInv, NEW q \in Requests, NEW row \in Series, NEW by \in {"family", "form"},
           SeriesCreate(q, row, by)
    PROVE  TypeInv'
<1>1. PICK r \in SeriesIds : /\ series[r] = None /\ series' = [series EXCEPT ![r] = row]
                             /\ SeriesBegin(q, r, row, by)
  BY DEF SeriesCreate
<1>2. TypeOK /\ UNCHANGED <<lessons, booked, blocked, now, archive>>
  BY DEF SeriesCreate, TypeInv
<1>3. Lasting
  BY <1>1, <1>2, SeriesRow DEF Lasting, TypeOK
<1>4. LessonsTyped'
  BY <1>2, <1>3, KeptTypes
<1>5. OthersTyped'
  BY <1>1, <1>2 DEF TypeOK, OthersTyped
<1>6. booked <= booked'
  BY <1>2, BookingAssumption DEF TypeOK
<1>7. QED
  BY <1>1, <1>2, <1>4, <1>5, <1>6, SeriesBegan, TypesKept DEF Is

LEMMA TypesGenerate ==
    ASSUME TypeInv, NEW q \in Requests, NEW r \in SeriesIds, Generate(q, r)
    PROVE  TypeInv'
<1>1. /\ series[r] # None /\ SeriesBegin(q, r, series[r], "tutor") /\ TypeOK
      /\ UNCHANGED <<lessons, booked, series, blocked, now, archive>>
  BY DEF Generate, TypeInv
<1>2. series[r] \in Series
  BY <1>1 DEF TypeOK
<1>3. LessonsTyped'
  BY <1>1, KeptTypes DEF Lasting
<1>4. OthersTyped'
  BY <1>1 DEF TypeOK, OthersTyped
<1>5. booked <= booked'
  BY <1>1, BookingAssumption DEF TypeOK
<1>6. QED
  BY <1>1, <1>2, <1>3, <1>4, <1>5, SeriesBegan, TypesKept DEF Is

LEMMA TypesBookCreate ==
    ASSUME TypeInv, NEW q \in Requests, BookCreate(q)
    PROVE  TypeInv'
<1> DEFINE row == New(req[q].contract, req[q].slot, None, TRUE)
<1>1. TypeOK /\ Insert(row) /\ End(q) /\ UNCHANGED <<series, blocked, now, archive>> /\ Is(q, "book")
  BY DEF TypeInv, BookCreate
<1>2. row \in Lesson /\ row.series = None
  <2>1. req[q].contract \in Contracts /\ req[q].slot \in Slots /\ None \in SeriesIds \cup {None}
    BY <1>1, RequestFields
  <2>2. QED
    BY <2>1, NewRow
<1> HIDE DEF row
<1>3. LessonsTyped'
  BY <1>1, <1>2, InsertTypes DEF Lasting
<1>4. OthersTyped'
  BY <1>1 DEF TypeOK, OthersTyped
<1>5. booked <= booked'
  BY <1>1, <1>2, Inserted, BookingAssumption DEF TypeOK
<1>6. QED
  BY <1>1, <1>3, <1>4, <1>5, Ended, TypesKept DEF Is

LEMMA TypesCancelCommit ==
    ASSUME TypeInv, NEW q \in Requests, CancelCommit(q)
    PROVE  TypeInv'
<1>1. /\ TypeOK /\ Is(q, "cancel") /\ End(q) /\ UNCHANGED <<booked, series, blocked, now>>
      /\ lessons' = Without({req[q].id}) /\ archive' = [archive EXCEPT ![req[q].id] = @ + 1]
  BY DEF TypeInv, CancelCommit
<1>2. LessonsTyped'
  BY <1>1, DeleteTypes
<1>3. OthersTyped'
  BY <1>1, RequestFields DEF TypeOK, OthersTyped
<1>4. booked <= booked'
  BY <1>1, BookingAssumption DEF TypeOK
<1>5. QED
  BY <1>1, <1>2, <1>3, <1>4, Ended, TypesKept DEF Is

LEMMA TypesMoveSave ==
    ASSUME TypeInv, NEW q \in Requests, MoveSave(q)
    PROVE  TypeInv'
<1> DEFINE k == req[q].id
           row == Moved(req[q].row, req[q].slot, TRUE)
<1>1. /\ TypeOK /\ Is(q, "move") /\ End(q) /\ UNCHANGED <<booked, series, blocked, now, archive>>
      /\ lessons' = [lessons EXCEPT ![k] = row]
  BY DEF TypeInv, MoveSave
<1>2. k \in LessonIds /\ row \in Lesson /\ row.series = None /\ k <= booked
  BY <1>1, RequestFields, MovedRow DEF TypeInv, MovesKnown
<1> HIDE DEF k, row
<1>3. LessonsTyped'
  BY <1>1, <1>2, ReplaceTypes
<1>4. OthersTyped'
  BY <1>1 DEF TypeOK, OthersTyped
<1>5. booked <= booked'
  BY <1>1, BookingAssumption DEF TypeOK
<1>6. QED
  BY <1>1, <1>3, <1>4, <1>5, Ended, TypesKept DEF Is

(* The day a series is at, and what becomes of it: the day is passed over, *)
(* taken or gets a lesson.                                                 *)
DayDone(q, d, added, skipped) ==
    /\ ReqTyped' /\ Others(q) /\ ~Idle(q)'
    /\ req'[q].op = "series" /\ req'[q].id = req[q].id /\ req'[q].row = req[q].row
    /\ req'[q].taken = req[q].taken /\ req'[q].by = req[q].by
    /\ req'[q].todo = req[q].todo \ {d}
    /\ req'[q].created = req[q].created \cup added
    /\ req'[q].skipped = req[q].skipped \cup skipped

LEMMA DayTaken ==
    ASSUME TypeOK, NEW q \in Requests, Is(q, "series"), NEW d \in Days
    PROVE  /\ req' = [req EXCEPT ![q].todo = @ \ {d}, ![q].skipped = @ \cup {d}]
                 => DayDone(q, d, {}, {d})
           /\ req' = [req EXCEPT ![q].todo = @ \ {d}]
                 => DayDone(q, d, {}, {})
           /\ req' = [req EXCEPT ![q].todo = @ \ {d}, ![q].created = @ \cup {d}]
                 => DayDone(q, d, {d}, {})
<1> DEFINE rows == [op : {"series"}, id : SeriesIds, row : Series, todo : SUBSET Days,
                    taken : SUBSET Slots, created : SUBSET Days, skipped : SUBSET Days,
                    by : {"family", "tutor", "form"}]
           old == req[q]
           skip == [old EXCEPT !.todo = @ \ {d}, !.skipped = @ \cup {d}]
           drop == [old EXCEPT !.todo = @ \ {d}]
           make == [old EXCEPT !.todo = @ \ {d}, !.created = @ \cup {d}]
<1>1. req \in [Requests -> Request \cup {None}] /\ old \in Request /\ old.op = "series"
  BY DEF TypeOK, Is, Idle
<1>2. old \in rows
  BY <1>1 DEF Request
<1>3. rows \subseteq Request
  BY DEF Request
<1>4. ASSUME NEW new \in rows, req' = [req EXCEPT ![q] = new], NEW added, NEW skipped,
             new.id = old.id, new.row = old.row, new.taken = old.taken, new.by = old.by,
             new.todo = old.todo \ {d}, new.created = old.created \cup added,
             new.skipped = old.skipped \cup skipped
      PROVE  DayDone(q, d, added, skipped)
  <2>1. req'[q] = new /\ ReqTyped' /\ Others(q)
    BY <1>1, <1>3, <1>4 DEF ReqTyped, Others
  <2>2. new # None /\ new.op = "series"
    BY <1>3, NoneAssumption
  <2> HIDE DEF rows
  <2>3. QED
    BY <1>4, <2>1, <2>2 DEF DayDone, Idle
<1>5. /\ skip \in rows /\ skip.id = old.id /\ skip.row = old.row /\ skip.taken = old.taken
      /\ skip.by = old.by /\ skip.todo = old.todo \ {d} /\ skip.created = old.created \cup {}
      /\ skip.skipped = old.skipped \cup {d}
  <2> HIDE DEF old
  <2>1. QED
    BY <1>2
<1>6. /\ drop \in rows /\ drop.id = old.id /\ drop.row = old.row /\ drop.taken = old.taken
      /\ drop.by = old.by /\ drop.todo = old.todo \ {d} /\ drop.created = old.created \cup {}
      /\ drop.skipped = old.skipped \cup {}
  <2> HIDE DEF old
  <2>1. QED
    BY <1>2
<1>7. /\ make \in rows /\ make.id = old.id /\ make.row = old.row /\ make.taken = old.taken
      /\ make.by = old.by /\ make.todo = old.todo \ {d} /\ make.created = old.created \cup {d}
      /\ make.skipped = old.skipped \cup {}
  <2> HIDE DEF old
  <2>1. QED
    BY <1>2
<1>8. /\ [req EXCEPT ![q].todo = @ \ {d}, ![q].skipped = @ \cup {d}] = [req EXCEPT ![q] = skip]
      /\ [req EXCEPT ![q].todo = @ \ {d}] = [req EXCEPT ![q] = drop]
      /\ [req EXCEPT ![q].todo = @ \ {d}, ![q].created = @ \cup {d}] = [req EXCEPT ![q] = make]
  BY <1>1, <1>2
<1> HIDE DEF rows, old, skip, drop, make
<1>9. QED
  BY <1>4, <1>5, <1>6, <1>7, <1>8

LEMMA DaySteps ==
    ASSUME TypeOK, NEW q \in Requests, SeriesDay(q)
    PROVE  LET d == Min(req[q].todo)
               s == SlotOn(req[q].row, d)
               there == Exists(req[q].row.contract, s)
               gone == series[req[q].id] = None
               row == Updated(New(req[q].row.contract, s, req[q].id, TRUE))
           IN /\ Is(q, "series") /\ d \in req[q].todo /\ d \in Days
              /\ UNCHANGED <<series, blocked, now, archive>>
              /\ \/ /\ there \/ (s \notin req[q].taken /\ gone)
                    /\ DayDone(q, d, {}, {d}) /\ UNCHANGED <<lessons, booked>>
                 \/ /\ ~there /\ s \in req[q].taken
                    /\ DayDone(q, d, {}, {}) /\ UNCHANGED <<lessons, booked>>
                 \/ /\ ~there /\ s \notin req[q].taken /\ ~gone
                    /\ DayDone(q, d, {d}, {}) /\ Insert(row)
<1> DEFINE d == Min(req[q].todo)
<1>1. Is(q, "series") /\ req[q].todo # {}
  BY DEF SeriesDay
<1>2. d \in req[q].todo /\ d \in Days
  BY <1>1, NextDay
<1>3. /\ req' = [req EXCEPT ![q].todo = @ \ {d}, ![q].skipped = @ \cup {d}] => DayDone(q, d, {}, {d})
      /\ req' = [req EXCEPT ![q].todo = @ \ {d}] => DayDone(q, d, {}, {})
      /\ req' = [req EXCEPT ![q].todo = @ \ {d}, ![q].created = @ \cup {d}] => DayDone(q, d, {d}, {})
  BY <1>1, <1>2, DayTaken
<1>4. QED
  BY <1>1, <1>2, <1>3 DEF SeriesDay

LEMMA DayRow ==
    ASSUME TypeOK, NEW q \in Requests, Is(q, "series"), NEW d \in Days
    PROVE  LET s == SlotOn(req[q].row, d)
               row == Updated(New(req[q].row.contract, s, req[q].id, TRUE))
           IN /\ s \in Slots /\ s.day = d /\ s.time = req[q].row.time
              /\ row \in Lesson /\ row.slot = s /\ row.series = req[q].id
              /\ row.contract = req[q].row.contract /\ row.checked
<1>1. req[q].row \in Series /\ req[q].id \in SeriesIds
  BY RequestFields
<1> DEFINE s == SlotOn(req[q].row, d)
           c == req[q].row.contract
           r == req[q].id
           new == New(c, s, r, TRUE)
<1>2. /\ s \in Slots /\ s.day = d /\ s.time = req[q].row.time
      /\ c \in Contracts /\ r \in SeriesIds \cup {None}
  BY <1>1, SeriesRow
<1> HIDE DEF s, c, r
<1>3. /\ new \in Lesson /\ new.contract = c /\ new.slot = s
      /\ new.series = r /\ new.checked
  BY <1>2 DEF New, Lesson
<1> HIDE DEF new
<1>4. /\ Updated(new) \in Lesson /\ Updated(new).slot = s /\ Updated(new).series = r
      /\ Updated(new).contract = c /\ Updated(new).checked
  BY <1>3, UpdatedRow
<1>5. QED
  BY <1>2, <1>4 DEF new, s, c, r

LEMMA TypesSeriesDay ==
    ASSUME TypeInv, NEW q \in Requests, SeriesDay(q)
    PROVE  TypeInv'
<1> DEFINE d == Min(req[q].todo)
           s == SlotOn(req[q].row, d)
           row == Updated(New(req[q].row.contract, s, req[q].id, TRUE))
<1>1. TypeOK
  BY DEF TypeInv
<1>2. /\ Is(q, "series") /\ d \in Days /\ UNCHANGED <<series, blocked, now, archive>>
      /\ \/ /\ \E added, skipped \in SUBSET {d} : DayDone(q, d, added, skipped)
            /\ UNCHANGED <<lessons, booked>>
         \/ /\ DayDone(q, d, {d}, {}) /\ Insert(row) /\ series[req[q].id] # None
  BY <1>1, DaySteps, Zenon
<1>3. row \in Lesson /\ row.series = req[q].id
  BY <1>1, <1>2, DayRow
<1> HIDE DEF d, row
<1>4. OthersTyped'
  BY <1>1, <1>2 DEF TypeOK, OthersTyped
<1>5. booked \in Nat
  BY <1>1, BookingAssumption DEF TypeOK
<1>6. CASE /\ \E added, skipped \in SUBSET {d} : DayDone(q, d, added, skipped)
           /\ UNCHANGED <<lessons, booked>>
  <2>1. LessonsTyped'
    BY <1>1, <1>2, <1>6, KeptTypes DEF Lasting
  <2>2. ReqTyped' /\ Others(q) /\ req'[q].op = "series"
    BY <1>6 DEF DayDone
  <2>3. QED
    BY <1>4, <1>5, <1>6, <2>1, <2>2, TypesKept DEF Is
<1>7. CASE DayDone(q, d, {d}, {}) /\ Insert(row) /\ series[req[q].id] # None
  <2>1. LessonsTyped'
    BY <1>1, <1>2, <1>3, <1>7, InsertTypes DEF Lasting
  <2>2. ReqTyped' /\ Others(q) /\ req'[q].op = "series"
    BY <1>7 DEF DayDone
  <2>3. booked <= booked'
    BY <1>1, <1>3, <1>5, <1>7, Inserted
  <2>4. QED
    BY <1>4, <2>1, <2>2, <2>3, TypesKept DEF Is
<1>8. QED
  BY <1>2, <1>6, <1>7

\* a series is done: one of three ends
LEMMA DoneSteps ==
    ASSUME TypeOK, NEW q \in Requests, SeriesDone(q)
    PROVE  /\ Is(q, "series") /\ req[q].todo = {} /\ End(q) /\ UNCHANGED <<blocked, now, archive>>
           /\ \/ /\ req[q].by = "family" /\ Nowhere(q)
                 /\ series' = [series EXCEPT ![req[q].id] = None]
                 /\ lessons' = Without(LinkedTo(req[q].id)) /\ UNCHANGED booked
              \/ /\ req[q].by = "form" /\ req[q].created = {} /\ UNCHANGED series
                 /\ \E row \in Lesson : /\ row.series = None /\ ~row.checked
                                        /\ row.contract = req[q].row.contract /\ Insert(row)
              \/ /\ req[q].by = "tutor" \/ req[q].created # {} \/ (req[q].by = "family" /\ ~Nowhere(q))
                 /\ UNCHANGED <<lessons, booked, series>>
<1>1. Is(q, "series") /\ req[q].row \in Series
  BY RequestFields DEF SeriesDone
<1> DEFINE a == req[q].row
<1>2. Min(a.days) \in Days
  BY <1>1, SeriesRow, LeastDay
<1>3. ASSUME NEW d \in 1..Min(a.days)
      PROVE  LET row == Updated(New(a.contract, SlotOn(a, d), None, FALSE))
             IN row \in Lesson /\ row.series = None /\ ~row.checked /\ row.contract = a.contract
  <2>1. d \in Days
    BY <1>2, BookingAssumption DEF Days
  <2>2. SlotOn(a, d) \in Slots /\ a.contract \in Contracts
    BY <1>1, <2>1, SeriesRow
  <2> DEFINE s == SlotOn(a, d)
             c == a.contract
             new == New(c, s, None, FALSE)
  <2> HIDE DEF s, a, c
  <2>3. new \in Lesson /\ new.series = None /\ ~new.checked /\ new.contract = c
    BY <2>2 DEF New, Lesson, s, c
  <2> HIDE DEF new
  <2>4. QED
    BY <2>3, UpdatedRow DEF new, s, c
<1>4. QED
  BY <1>1, <1>3, Zenon DEF SeriesDone

LEMMA TypesSeriesDone ==
    ASSUME TypeInv, NEW q \in Requests, SeriesDone(q)
    PROVE  TypeInv'
<1> DEFINE k == req[q].id
<1>1. TypeOK
  BY DEF TypeInv
<1>2. /\ Is(q, "series") /\ End(q) /\ UNCHANGED <<blocked, now, archive>>
      /\ \/ /\ series' = [series EXCEPT ![k] = None]
            /\ lessons' = Without(LinkedTo(k)) /\ UNCHANGED booked
         \/ /\ UNCHANGED series
            /\ \E row \in Lesson : row.series = None /\ Insert(row)
         \/ UNCHANGED <<lessons, booked, series>>
  BY <1>1, DoneSteps, Zenon
<1>3. k \in SeriesIds
  BY <1>1, <1>2, RequestFields
<1> HIDE DEF k
<1>4. booked \in Nat
  BY <1>1, BookingAssumption DEF TypeOK
<1>5. ReqTyped' /\ Others(q) /\ req'[q] = None
  BY <1>1, <1>2, Ended
<1>6. LessonsTyped' /\ OthersTyped' /\ booked <= booked'
  <2>1. CASE /\ series' = [series EXCEPT ![k] = None]
             /\ lessons' = Without(LinkedTo(k)) /\ UNCHANGED booked
    <3>1. LessonsTyped'
      BY <1>1, <1>3, <2>1, DeleteTypes DEF TypeOK
    <3>2. QED
      BY <1>1, <1>2, <1>3, <1>4, <2>1, <3>1 DEF TypeOK, OthersTyped
  <2>2. CASE UNCHANGED series /\ \E row \in Lesson : row.series = None /\ Insert(row)
    <3>1. PICK row \in Lesson : row.series = None /\ Insert(row)
      BY <2>2
    <3>2. LessonsTyped'
      BY <1>1, <2>2, <3>1, InsertTypes DEF Lasting
    <3>3. booked <= booked'
      BY <1>1, <1>4, <3>1, Inserted
    <3>4. QED
      BY <1>1, <1>2, <2>2, <3>2, <3>3 DEF TypeOK, OthersTyped
  <2>3. CASE UNCHANGED <<lessons, booked, series>>
    <3>1. LessonsTyped'
      BY <1>1, <2>3, KeptTypes DEF Lasting
    <3>2. QED
      BY <1>1, <1>2, <1>4, <2>3, <3>1 DEF TypeOK, OthersTyped
  <2>4. QED
    BY <1>2, <2>1, <2>2, <2>3
<1>7. QED
  BY <1>5, <1>6, TypesKept DEF Is, Idle

LEMMA TypesEndCommit ==
    ASSUME TypeInv, NEW q \in Requests, EndCommit(q)
    PROVE  TypeInv'
<1> DEFINE k == req[q].id
           row == [req[q].row EXCEPT !.active = FALSE]
<1>1. /\ TypeOK /\ Is(q, "end") /\ End(q) /\ UNCHANGED <<booked, blocked, now>>
      /\ lessons' = Without(Upcoming(LinkedTo(k)))
      /\ series' = [series EXCEPT ![k] = row]
      /\ archive' = [l \in LessonIds |-> archive[l] + IF l \in req[q].dropped THEN 1 ELSE 0]
  BY DEF TypeInv, EndCommit
<1>2. k \in SeriesIds /\ row \in Series
  BY <1>1, RequestFields DEF Series
<1>3. row # None
  BY <1>2, NoneAssumption
<1> HIDE DEF k, row
<1>4. LessonsTyped'
  BY <1>1, <1>2, <1>3, DeleteTypes DEF TypeOK
<1>5. OthersTyped'
  BY <1>1, <1>2 DEF TypeOK, OthersTyped
<1>6. booked <= booked'
  BY <1>1, BookingAssumption DEF TypeOK
<1>7. QED
  BY <1>1, <1>4, <1>5, <1>6, Ended, TypesKept DEF Is, Idle
-----------------------------------------------------------------------------
(* What the form of a series leaves: the old lessons it keeps, and new     *)
(* ones, each on another of the days that are free beside those.           *)
Generated(r, row, kept, l, d) ==
    /\ row.active /\ d \in Free(row, kept)
    /\ l = booked + Cardinality({e \in Free(row, kept) : e <= d})
    /\ lessons'[l] = Updated(New(row.contract, SlotOn(row, d), r, TRUE))

LEMMA Saved ==
    ASSUME TypeOK, NEW r \in SeriesIds, NEW row \in Series, NEW kept \in SUBSET LessonIds,
           SaveSeries(r, row, kept)
    PROVE  /\ Quiet /\ booked <= booked' /\ booked' \in 0..MaxLessons
           /\ lessons' \in [LessonIds -> Lesson \cup {None}]
           /\ series' = [series EXCEPT ![r] = row]
           /\ UNCHANGED <<blocked, now, archive, req>>
           /\ \A l \in LessonIds :
                 \/ l <= booked /\ lessons'[l] = IF l \in kept THEN lessons[l] ELSE None
                 \/ booked < l /\ lessons'[l] = None
                 \/ booked < l /\ l <= booked' /\ \E d \in row.days : Generated(r, row, kept, l, d)
<1> DEFINE new == IF row.active THEN Free(row, kept) ELSE {}
           id(d) == booked + Cardinality({e \in new : e <= d})
           day(l) == {d \in new : id(d) = l}
           made(l) == Updated(New(row.contract, SlotOn(row, Min(day(l))), r, TRUE))
<1>1. /\ Quiet /\ Room(Cardinality(new)) /\ booked' = booked + Cardinality(new)
      /\ lessons' = [l \in LessonIds |-> IF day(l) # {} THEN made(l)
                                         ELSE IF l \in kept THEN lessons[l] ELSE None]
      /\ series' = [series EXCEPT ![r] = row]
      /\ UNCHANGED <<blocked, now, archive, req>>
  BY DEF SaveSeries
<1>2. /\ booked \in Nat /\ booked \in 0..MaxLessons
      /\ \A l \in LessonIds : lessons[l] # None => l <= booked
      /\ \A l \in LessonIds : lessons[l] \in Lesson \cup {None}
  BY BookingAssumption DEF TypeOK
<1>3. new \in SUBSET Days /\ new \subseteq row.days /\ new \in SUBSET Nat
  BY SeriesRow DEF Free
<1> HIDE DEF new
<1>4. Cardinality(new) \in Nat
  <2>1. IsFiniteSet(Days) /\ IsFiniteSet(new)
    <3>1. IsFiniteSet(Days)
      BY FS_Interval, BookingAssumption DEF Days
    <3>2. QED
      BY <1>3, <3>1, FS_Subset
  <2>2. QED
    BY <2>1, FS_CardinalityType
<1>5. booked' \in 0..MaxLessons /\ booked <= booked'
  BY <1>1, <1>2, <1>4, BookingAssumption DEF Room
<1>6. \A d \in new : id(d) \in (booked + 1)..booked'
  <2> TAKE d \in new
  <2>1. Cardinality({e \in new : e <= d}) \in 1..Cardinality(new)
    BY <1>3, PartCount
  <2>2. QED
    BY <1>1, <1>2, <1>4, <2>1
<1>7. ASSUME NEW l \in LessonIds, day(l) # {}
      PROVE  \E d \in new : Min(day(l)) = d /\ id(d) = l
  <2>1. day(l) \in SUBSET Nat
    BY <1>3
  <2>2. Min(day(l)) \in day(l)
    BY <1>7, <2>1, LeastDay
  <2>3. QED
    BY <2>2
<1>8. ASSUME NEW d \in new
      PROVE  Updated(New(row.contract, SlotOn(row, d), r, TRUE)) \in Lesson
  <2> DEFINE s == SlotOn(row, d)
             c == row.contract
             a == New(c, s, r, TRUE)
  <2>1. s \in Slots /\ c \in Contracts
    BY <1>3, SeriesRow
  <2> HIDE DEF s, c
  <2>2. a \in Lesson
    BY <2>1 DEF New, Lesson
  <2> HIDE DEF a
  <2>3. Updated(a) \in Lesson
    BY <2>2, UpdatedRow
  <2>4. QED
    BY <2>3 DEF a, s, c
<1>9. lessons' \in [LessonIds -> Lesson \cup {None}]
  <2>1. \A l \in LessonIds : day(l) # {} => made(l) \in Lesson
    <3> SUFFICES ASSUME NEW l \in LessonIds, day(l) # {} PROVE made(l) \in Lesson
      OBVIOUS
    <3>1. PICK d \in new : Min(day(l)) = d
      BY <1>7
    <3> HIDE DEF day
    <3>2. QED
      BY <1>8, <3>1
  <2> HIDE DEF day, made
  <2>2. QED
    BY <1>1, <1>2, <2>1
<1>10. ASSUME NEW l \in LessonIds
       PROVE  \/ l <= booked /\ lessons'[l] = IF l \in kept THEN lessons[l] ELSE None
              \/ booked < l /\ lessons'[l] = None
              \/ booked < l /\ l <= booked' /\ \E d \in row.days : Generated(r, row, kept, l, d)
  <2>1. CASE day(l) = {}
    <3>1. lessons'[l] = IF l \in kept THEN lessons[l] ELSE None
      BY <1>1, <2>1
    <3>2. l \in Nat
      BY BookingAssumption DEF LessonIds
    <3>3. QED
      BY <1>2, <3>1, <3>2
  <2>2. CASE day(l) # {}
    <3>1. PICK d \in new : Min(day(l)) = d /\ id(d) = l
      BY <1>7, <2>2
    <3>2. lessons'[l] = made(l)
      BY <1>1, <2>2
    <3> HIDE DEF day
    <3>3. lessons'[l] = Updated(New(row.contract, SlotOn(row, d), r, TRUE))
      BY <3>1, <3>2
    <3>4. row.active /\ new = Free(row, kept)
      BY <3>1 DEF new
    <3>5. Generated(r, row, kept, l, d) /\ d \in row.days
      BY <1>3, <3>1, <3>3, <3>4 DEF Generated
    <3>6. booked < l /\ l <= booked'
      BY <1>2, <1>5, <1>6, <3>1
    <3>7. QED
      BY <3>5, <3>6
  <2>3. QED
    BY <2>1, <2>2
<1>11. QED
  BY <1>1, <1>5, <1>9, <1>10

LEMMA GeneratedRow ==
    ASSUME TypeOK, NEW r \in SeriesIds, NEW row \in Series, NEW kept \in SUBSET LessonIds,
           NEW l \in LessonIds, NEW d \in row.days, Generated(r, row, kept, l, d)
    PROVE  /\ lessons'[l] # None /\ lessons'[l].slot = SlotOn(row, d) /\ lessons'[l].series = r
           /\ lessons'[l].contract = row.contract
<1> DEFINE s == SlotOn(row, d)
           c == row.contract
           a == New(c, s, r, TRUE)
<1>1. s \in Slots /\ c \in Contracts
  BY SeriesRow
<1> HIDE DEF s, c
<1>2. a \in Lesson /\ a.slot = s /\ a.series = r /\ a.contract = c
  BY <1>1 DEF New, Lesson
<1> HIDE DEF a
<1>3. /\ Updated(a) \in Lesson /\ Updated(a).slot = s /\ Updated(a).series = r
      /\ Updated(a).contract = c
  BY <1>2, UpdatedRow
<1>4. lessons'[l] = Updated(a)
  BY DEF Generated, a, s, c
<1>5. QED
  BY <1>3, <1>4, NoneAssumption DEF s, c

LEMMA TypesSaved ==
    ASSUME TypeInv, NEW r \in SeriesIds, NEW row \in Series, NEW kept \in SUBSET LessonIds,
           SaveSeries(r, row, kept)
    PROVE  TypeInv'
<1>1. TypeOK
  BY DEF TypeInv
<1>2. /\ booked <= booked' /\ booked' \in 0..MaxLessons
      /\ lessons' \in [LessonIds -> Lesson \cup {None}]
      /\ series' = [series EXCEPT ![r] = row] /\ UNCHANGED <<blocked, now, archive, req>>
  BY <1>1, Saved
<1>3. /\ series'[r] = row /\ row # None
      /\ \A k \in SeriesIds : series[k] # None => series'[k] # None
  BY <1>1, <1>2, SeriesRow DEF TypeOK
<1>4. ASSUME NEW l \in LessonIds, lessons'[l] # None
      PROVE  l <= booked' /\ (lessons'[l].series = None \/ series'[lessons'[l].series] # None)
  <2>1. CASE l <= booked /\ lessons'[l] = IF l \in kept THEN lessons[l] ELSE None
    <3>1. lessons'[l] = lessons[l] /\ lessons[l] \in Lesson
      BY <1>1, <1>4, <2>1 DEF TypeOK
    <3>2. lessons[l].series = None \/ (lessons[l].series \in SeriesIds /\ series[lessons[l].series] # None)
      BY <1>1, <3>1, NoneAssumption DEF TypeOK, Lesson
    <3>3. l \in Nat /\ booked \in Nat /\ booked' \in Nat
      BY <1>1, <1>2, BookingAssumption DEF TypeOK, LessonIds
    <3>4. QED
      BY <1>2, <1>3, <2>1, <3>1, <3>2, <3>3
  <2>2. CASE booked < l /\ l <= booked' /\ \E d \in row.days : Generated(r, row, kept, l, d)
    <3>1. lessons'[l].series = r
      BY <1>1, <2>2, GeneratedRow
    <3>2. QED
      BY <1>3, <2>2, <3>1
  <2>3. QED
    BY <1>1, <1>4, <2>1, <2>2, Saved
<1>5. LessonsTyped'
  BY <1>2, <1>4 DEF LessonsTyped
<1>6. OthersTyped'
  BY <1>1, <1>2 DEF TypeOK, OthersTyped
<1>7. QED
  BY <1>2, <1>5, <1>6, TypesWithout

LEMMA HandRow ==
    ASSUME TypeOK, NEW c \in Contracts, NEW s \in Slots
    PROVE  LET row == Updated(New(c, s, None, FALSE))
           IN /\ row \in Lesson /\ row.contract = c /\ row.slot = s
              /\ row.series = None /\ ~row.checked
<1> DEFINE a == New(c, s, None, FALSE)
<1>1. a \in Lesson /\ a.contract = c /\ a.slot = s /\ a.series = None /\ ~a.checked
  BY DEF New, Lesson
<1> HIDE DEF a
<1>2. QED
  BY <1>1, UpdatedRow DEF a

LEMMA TypesTutorBook ==
    ASSUME TypeInv, NEW c \in Contracts, NEW s \in Slots, TutorBook(c, s)
    PROVE  TypeInv'
<1> DEFINE row == Updated(New(c, s, None, FALSE))
<1>1. TypeOK /\ Insert(row) /\ UNCHANGED <<series, blocked, now, archive, req>>
  BY DEF TypeInv, TutorBook
<1>2. row \in Lesson /\ row.series = None
  BY <1>1, HandRow
<1> HIDE DEF row
<1>3. LessonsTyped' /\ booked <= booked'
  BY <1>1, <1>2, InsertTypes, Inserted, BookingAssumption DEF Lasting, TypeOK
<1>4. OthersTyped'
  BY <1>1 DEF TypeOK, OthersTyped
<1>5. QED
  BY <1>1, <1>3, <1>4, TypesWithout

LEMMA TypesTutorMoves ==
    ASSUME TypeInv, NEW l \in LessonIds, NEW s \in Slots, TutorEdit(l, s) \/ TutorReschedule(l, s)
    PROVE  TypeInv'
<1> DEFINE a == Moved(lessons[l], s, FALSE)
<1>1. /\ TypeOK /\ lessons[l] # None
      /\ lessons' = [lessons EXCEPT ![l] = a] \/ lessons' = [lessons EXCEPT ![l] = Updated(a)]
      /\ UNCHANGED <<booked, series, blocked, now, archive, req>>
  BY DEF TypeInv, TutorEdit, TutorReschedule, TypeOK
<1>2. lessons[l] \in Lesson /\ l <= booked
  BY <1>1 DEF TypeOK
<1>3. a \in Lesson /\ a.series = None
  BY <1>2, MovedRow
<1> HIDE DEF a
<1>4. Updated(a) \in Lesson /\ Updated(a).series = None
  BY <1>3, UpdatedRow
<1>5. LessonsTyped' /\ booked <= booked'
  BY <1>1, <1>2, <1>3, <1>4, ReplaceTypes, BookingAssumption DEF TypeOK
<1>6. OthersTyped'
  BY <1>1 DEF TypeOK, OthersTyped
<1>7. QED
  BY <1>1, <1>5, <1>6, TypesWithout

LEMMA TypesTutorDelete ==
    ASSUME TypeInv, NEW l \in LessonIds, TutorDelete(l)
    PROVE  TypeInv'
<1>1. /\ TypeOK /\ lessons' = Without({l})
      /\ UNCHANGED <<booked, series, blocked, now, archive, req>>
  BY DEF TypeInv, TutorDelete
<1>2. LessonsTyped' /\ booked <= booked'
  BY <1>1, DeleteTypes, BookingAssumption DEF TypeOK
<1>3. OthersTyped'
  BY <1>1 DEF TypeOK, OthersTyped
<1>4. QED
  BY <1>1, <1>2, <1>3, TypesWithout

LEMMA TypesDeleteSeries ==
    ASSUME TypeInv, NEW r \in SeriesIds, DeleteSeries(r)
    PROVE  TypeInv'
<1>1. /\ TypeOK /\ lessons' = Without(OfSeries(r, series[r])) /\ series' = [series EXCEPT ![r] = None]
      /\ UNCHANGED <<booked, blocked, now, archive, req>>
  BY DEF TypeInv, DeleteSeries
<1>2. LinkedTo(r) \subseteq OfSeries(r, series[r])
  BY DEF OfSeries
<1>3. LessonsTyped' /\ booked <= booked'
  BY <1>1, <1>2, DeleteTypes, BookingAssumption DEF TypeOK
<1>4. OthersTyped'
  BY <1>1 DEF TypeOK, OthersTyped
<1>5. QED
  BY <1>1, <1>3, <1>4, TypesWithout

LEMMA TypesForms ==
    ASSUME TypeInv, NEW row \in Series,
           CreateSeries(row) \/ \E r \in SeriesIds : UpdateSeries(r, row)
    PROVE  TypeInv'
<1>1. \E r \in SeriesIds, kept \in SUBSET LessonIds : SaveSeries(r, row, kept)
  BY DEF CreateSeries, UpdateSeries, Present
<1>2. QED
  BY <1>1, TypesSaved

LEMMA TypesActivate ==
    ASSUME TypeInv, NEW r \in SeriesIds, NEW active \in BOOLEAN, Activate(r, active)
    PROVE  TypeInv'
<1> DEFINE row == [series[r] EXCEPT !.active = active]
<1>1. /\ TypeOK /\ series[r] # None /\ series' = [series EXCEPT ![r] = row]
      /\ UNCHANGED <<lessons, booked, blocked, now, archive, req>>
  BY DEF TypeInv, TypeOK, Activate
<1>2. row \in Series
  BY <1>1 DEF TypeOK, Series
<1>3. row # None
  BY <1>2, NoneAssumption
<1> HIDE DEF row
<1>4. LessonsTyped' /\ booked <= booked'
  BY <1>1, <1>3, KeptTypes, BookingAssumption DEF Lasting, TypeOK
<1>5. OthersTyped'
  BY <1>1, <1>2 DEF TypeOK, OthersTyped
<1>6. QED
  BY <1>1, <1>4, <1>5, TypesWithout

LEMMA TypesAround ==
    ASSUME TypeInv, (\E s \in Slots : Block(s)) \/ Tick
    PROVE  TypeInv'
<1>1. /\ TypeOK /\ UNCHANGED <<lessons, booked, series, archive, req>>
      /\ blocked' \subseteq Slots /\ now' \in 0..MaxNow
  BY BookingAssumption DEF TypeInv, TypeOK, Block, Tick
<1>2. LessonsTyped' /\ booked <= booked'
  BY <1>1, KeptTypes, BookingAssumption DEF Lasting, TypeOK
<1>3. OthersTyped'
  BY <1>1 DEF TypeOK, OthersTyped
<1>4. QED
  BY <1>1, <1>2, <1>3, TypesWithout

\* the clock's work changes the status of lessons, and nothing else
LEMMA StatusRows ==
    ASSUME TypeOK, UpdateStatus
    PROVE  /\ lessons' \in [LessonIds -> Lesson \cup {None}]
           /\ \A l \in LessonIds : lessons[l] = None => lessons'[l] = None
           /\ \A l \in LessonIds : lessons[l] # None =>
                 /\ lessons'[l] \in Lesson
                 /\ lessons'[l].contract = lessons[l].contract /\ lessons'[l].slot = lessons[l].slot
                 /\ lessons'[l].series = lessons[l].series /\ lessons'[l].checked = lessons[l].checked
                 /\ lessons'[l].status = "planned" => lessons[l].status = "planned"
<1>1. /\ lessons \in [LessonIds -> Lesson \cup {None}]
      /\ lessons' = [l \in LessonIds |-> IF l \in Present THEN Updated(lessons[l]) ELSE None]
  BY DEF TypeOK, UpdateStatus
<1>2. \A l \in LessonIds : lessons[l] = None => lessons'[l] = None
  BY <1>1 DEF Present
<1>3. \A l \in LessonIds : lessons[l] # None => lessons[l] \in Lesson /\ lessons'[l] = Updated(lessons[l])
  BY <1>1 DEF Present
<1>4. QED
  BY <1>1, <1>2, <1>3, UpdatedRow

LEMMA TypesStatus ==
    ASSUME TypeInv, UpdateStatus
    PROVE  TypeInv'
<1>1. TypeOK /\ UNCHANGED <<booked, series, blocked, now, archive, req>>
  BY DEF TypeInv, UpdateStatus
<1>2. ASSUME NEW l \in LessonIds, lessons'[l] # None
      PROVE  l <= booked /\ (lessons'[l].series = None \/ series[lessons'[l].series] # None)
  <2>1. lessons[l] # None /\ lessons'[l].series = lessons[l].series
    BY <1>1, <1>2, StatusRows
  <2>2. QED
    BY <1>1, <2>1 DEF TypeOK
<1>3. lessons' \in [LessonIds -> Lesson \cup {None}]
  BY <1>1, StatusRows
<1>4. LessonsTyped' /\ booked <= booked'
  BY <1>1, <1>2, <1>3, BookingAssumption DEF LessonsTyped, TypeOK
<1>5. OthersTyped'
  BY <1>1 DEF TypeOK, OthersTyped
<1>6. QED
  BY <1>1, <1>4, <1>5, TypesWithout

LEMMA TypesNext == TypeInv /\ [Next]_vars => TypeInv'
<1> SUFFICES ASSUME TypeInv, [Next]_vars PROVE TypeInv'
  OBVIOUS
<1>1. ASSUME NEW q \in Requests, Portal(q) PROVE TypeInv'
  <2>1. ASSUME \E c \in Contracts, s \in Slots : BookBegin(q, c, s) PROVE TypeInv'
    BY <2>1, TypesBookBegin
  <2>2. ASSUME \E l \in LessonIds : CancelBegin(q, l) PROVE TypeInv'
    BY <2>2, TypesCancelBegin
  <2>3. ASSUME \E l \in LessonIds, s \in Slots : MoveBegin(q, l, s) PROVE TypeInv'
    BY <2>3, TypesMoveBegin
  <2>4. ASSUME \E row \in {a \in Rows : a.active}, by \in {"family", "form"} : SeriesCreate(q, row, by)
        PROVE  TypeInv'
    BY <2>4, TypesSeriesCreate DEF Rows
  <2>5. ASSUME \E r \in SeriesIds : Generate(q, r) PROVE TypeInv'
    BY <2>5, TypesGenerate
  <2>6. ASSUME \E r \in SeriesIds : EndBegin(q, r) PROVE TypeInv'
    BY <2>6, TypesEndBegin
  <2>7. QED
    BY <1>1, <2>1, <2>2, <2>3, <2>4, <2>5, <2>6, TypesBookCreate, TypesCancelCommit,
       TypesMoveSave, TypesSeriesDay, TypesSeriesDone, TypesEndCommit DEF Portal
<1>2. ASSUME Tutor PROVE TypeInv'
  <2>1. ASSUME \E c \in Contracts, s \in Slots : TutorBook(c, s) PROVE TypeInv'
    BY <2>1, TypesTutorBook
  <2>2. ASSUME \E l \in LessonIds, s \in Slots : TutorEdit(l, s) \/ TutorReschedule(l, s) PROVE TypeInv'
    BY <2>2, TypesTutorMoves
  <2>3. ASSUME \E l \in LessonIds : TutorDelete(l) PROVE TypeInv'
    BY <2>3, TypesTutorDelete
  <2>4. ASSUME \E r \in SeriesIds : DeleteSeries(r) PROVE TypeInv'
    BY <2>4, TypesDeleteSeries
  <2>5. ASSUME \E row \in Rows : CreateSeries(row) \/ \E r \in SeriesIds : UpdateSeries(r, row)
        PROVE  TypeInv'
    BY <2>5, TypesForms DEF Rows
  <2>6. ASSUME \E r \in SeriesIds, active \in BOOLEAN : Activate(r, active) PROVE TypeInv'
    BY <2>6, TypesActivate
  <2>7. QED
    BY <1>2, <2>1, <2>2, <2>3, <2>4, <2>5, <2>6, TypesAround DEF Tutor
<1>3. CASE UNCHANGED vars
  <2>1. /\ TypeOK /\ UNCHANGED <<lessons, booked, series, blocked, now, archive, req>>
    BY <1>3 DEF TypeInv, vars
  <2>2. LessonsTyped' /\ booked <= booked'
    BY <2>1, KeptTypes, BookingAssumption DEF Lasting, TypeOK
  <2>3. OthersTyped'
    BY <2>1 DEF TypeOK, OthersTyped
  <2>4. QED
    BY <2>1, <2>2, <2>3, TypesWithout
<1>4. QED
  BY <1>1, <1>2, <1>3, TypesAround, TypesStatus DEF Next

(* Every state is typed, also with other requests between the two steps of *)
(* one: a lesson in the table has a key that was given out, and the series *)
(* it refers to exists.                                                    *)
THEOREM BookingTyped == Spec => []TypeOK
<1>1. TypeInv => TypeOK
  BY DEF TypeInv
<1>2. QED
  BY TypesInit, TypesNext, <1>1, PTL DEF Spec
-----------------------------------------------------------------------------
(* One request after the other: what a request has read is still so when   *)
(* it writes.                                                              *)
AllIdle == \A q \in Requests : Idle(q)
Sole == \A p, q \in Requests : ~Idle(p) /\ ~Idle(q) => p = q

HandBook(q) == Is(q, "book") => ~Busy(req[q].slot, {})
HandCancel(q) == Is(q, "cancel") => lessons[req[q].id] # None
HandMove(q) ==
    Is(q, "move") => lessons[req[q].id] = req[q].row /\ ~Busy(req[q].slot, {req[q].id})

\* the days a series request has passed are there, or were taken
Passed(q) == req[q].row.days \ req[q].todo
Made(q) == req[q].created \cup req[q].skipped
HandSeries(q) ==
    Is(q, "series") =>
        /\ series[req[q].id] = req[q].row
        /\ req[q].todo \subseteq req[q].row.days
        /\ Made(q) \subseteq Passed(q)
        /\ \A d \in req[q].todo :
              SlotOn(req[q].row, d) \in req[q].taken \/ ~Busy(SlotOn(req[q].row, d), {})
        /\ \A d \in Passed(q) : Exists(req[q].row.contract, SlotOn(req[q].row, d)) <=> d \in Made(q)
        /\ \A d \in Passed(q) : d \in Made(q) \/ SlotOn(req[q].row, d) \in req[q].taken
        /\ req[q].by = "family" /\ req[q].created = {} => LinkedTo(req[q].id) = {}
HandEnd(q) ==
    Is(q, "end") => /\ series[req[q].id] = req[q].row
                    /\ req[q].dropped = Upcoming(LinkedTo(req[q].id))
Hand(q) == HandBook(q) /\ HandCancel(q) /\ HandMove(q) /\ HandSeries(q) /\ HandEnd(q)
Hands == \A q \in Requests : Hand(q)

(* The archive holds only keys that were given out, too: no lesson that is *)
(* still to come can be in it already.                                     *)
Gone == \A l \in LessonIds : archive[l] > 0 => archive[l] = 1 /\ lessons[l] = None /\ l <= booked

SerialInv ==
    /\ TypeInv
    /\ Sole /\ Hands
    /\ NoClash /\ Gone /\ FollowsTemplate

LEMMA NothingHeld ==
    ASSUME NEW q \in Requests, Idle(q)
    PROVE  Hand(q)
BY DEF Hand, HandBook, HandCancel, HandMove, HandSeries, HandEnd, Is

LEMMA NothingHeldThen ==
    ASSUME NEW q \in Requests, Idle(q)'
    PROVE  Hand(q)'
BY DEF Hand, HandBook, HandCancel, HandMove, HandSeries, HandEnd, Is

LEMMA AllIdleThen ==
    ASSUME AllIdle'
    PROVE  Sole' /\ Hands'
BY NothingHeldThen DEF AllIdle, Sole, Hands

LEMMA QuietIdle ==
    ASSUME ~Overlap, Quiet
    PROVE  AllIdle
BY DEF Quiet, AllIdle

LEMMA QuietStays ==
    ASSUME ~Overlap, Quiet, UNCHANGED req
    PROVE  Sole' /\ Hands'
BY QuietIdle, AllIdleThen DEF AllIdle, Idle

LEMMA AllEnded ==
    ASSUME TypeOK, Sole, NEW q \in Requests, ~Idle(q), End(q)
    PROVE  Sole' /\ Hands'
<1>1. AllIdle'
  BY Ended DEF Sole, AllIdle, Idle, Others
<1>2. QED
  BY <1>1, AllIdleThen

LEMMA OneLeft ==
    ASSUME NEW q \in Requests, Others(q), Hand(q)', \A p \in Requests \ {q} : Idle(p)
    PROVE  Sole' /\ Hands'
<1>1. \A p \in Requests \ {q} : Idle(p)'
  BY DEF Others, Idle
<1>2. \A p \in Requests : Hand(p)'
  BY <1>1, NothingHeldThen
<1>3. QED
  BY <1>1, <1>2 DEF Sole, Hands

LEMMA HandsInit == Init => Sole /\ Hands
<1>1. Init => \A q \in Requests : Idle(q)
  BY DEF Init, Idle
<1>2. QED
  BY <1>1, NothingHeld DEF Sole, Hands
-----------------------------------------------------------------------------
(* The calendar, lesson by lesson.                                         *)
LEMMA NearBoth ==
    ASSUME NEW s, NEW t, Near(s, t)
    PROVE  Near(t, s) /\ s.day = t.day
BY DEF Near

LEMMA ClashStays ==
    ASSUME NoClash,
           \A l \in LessonIds : lessons'[l] # None /\ lessons'[l].checked =>
              \/ lessons[l] # None /\ lessons[l].checked /\ lessons'[l].slot = lessons[l].slot
              \/ \A m \in LessonIds \ {l} : lessons'[m] # None /\ lessons'[m].checked =>
                    ~Near(lessons'[l].slot, lessons'[m].slot)
    PROVE  NoClash'
<1> SUFFICES ASSUME NEW l \in LessonIds, NEW m \in LessonIds, l # m,
                    lessons'[l] # None, lessons'[m] # None, lessons'[l].checked, lessons'[m].checked,
                    Near(lessons'[l].slot, lessons'[m].slot)
             PROVE  FALSE
  BY DEF NoClash, Present
<1>1. Near(lessons'[m].slot, lessons'[l].slot)
  BY NearBoth
<1>2. lessons[l] # None /\ lessons[l].checked /\ lessons'[l].slot = lessons[l].slot
  OBVIOUS
<1>3. lessons[m] # None /\ lessons[m].checked /\ lessons'[m].slot = lessons[m].slot
  BY <1>1
<1>4. QED
  BY <1>2, <1>3 DEF NoClash, Present

LEMMA TemplateStays ==
    ASSUME FollowsTemplate,
           Today \in Nat, Today' \in Nat, Today <= Today',
           \A l \in LessonIds : lessons'[l] # None => lessons'[l].slot.day \in Nat,
           \A l \in LessonIds, r \in SeriesIds :
              /\ lessons'[l] # None /\ lessons'[l].series = r /\ lessons'[l].status = "planned"
              /\ lessons'[l].slot.day >= Today'
              =>
                 \/ /\ lessons[l] # None /\ lessons[l].series = r /\ lessons[l].status = "planned"
                    /\ lessons'[l].slot = lessons[l].slot
                    /\ series'[r].time = series[r].time /\ series'[r].days = series[r].days
                 \/ lessons'[l].slot.time = series'[r].time /\ lessons'[l].slot.day \in series'[r].days
    PROVE  FollowsTemplate'
<1> SUFFICES ASSUME NEW r \in SeriesIds, NEW l \in LessonIds, lessons'[l] # None,
                    lessons'[l].series = r, lessons'[l].status = "planned",
                    lessons'[l].slot.day >= Today'
             PROVE  lessons'[l].slot.time = series'[r].time /\ lessons'[l].slot.day \in series'[r].days
  BY DEF FollowsTemplate, Upcoming, LinkedTo, Present
<1>1. CASE /\ lessons[l] # None /\ lessons[l].series = r /\ lessons[l].status = "planned"
           /\ lessons'[l].slot = lessons[l].slot
           /\ series'[r].time = series[r].time /\ series'[r].days = series[r].days
  <2>1. lessons[l].slot.day >= Today
    BY <1>1
  <2>2. l \in Upcoming(LinkedTo(r))
    BY <1>1, <2>1 DEF Upcoming, LinkedTo, Present
  <2>3. QED
    BY <1>1, <2>2 DEF FollowsTemplate
<1>2. QED
  BY <1>1

LEMMA GoneStays ==
    ASSUME TypeOK, Gone, booked <= booked', booked' \in Nat,
           \A l \in LessonIds :
              \/ archive'[l] = archive[l] /\ (lessons'[l] = None \/ lessons[l] # None \/ booked < l)
              \/ archive'[l] = archive[l] + 1 /\ lessons[l] # None /\ lessons'[l] = None
    PROVE  Gone'
<1> SUFFICES ASSUME NEW l \in LessonIds, archive'[l] > 0
             PROVE  archive'[l] = 1 /\ lessons'[l] = None /\ l <= booked'
  BY DEF Gone
<1>1. /\ archive[l] \in Nat /\ l \in Nat /\ booked \in Nat
      /\ lessons[l] # None => l <= booked
      /\ archive[l] > 0 => archive[l] = 1 /\ lessons[l] = None /\ l <= booked
  BY BookingAssumption DEF TypeOK, Gone, LessonIds
<1>2. QED
  BY <1>1

LEMMA DayNumber ==
    ASSUME now \in Nat
    PROVE  Today \in Nat
<1> DEFINE n == MaxTime
           k == now - 1
<1>1. n \in Nat \ {0}
  BY BookingAssumption
<1>2. CASE now = 0
  BY <1>2 DEF Today
<1>3. CASE now # 0
  <2>1. k \in Nat
    BY <1>3
  <2> HIDE DEF n, k
  <2>2. k \div n \in Nat
    BY <1>1, <2>1
  <2>3. Today = 1 + (k \div n)
    BY <1>3 DEF Today, n, k
  <2>4. QED
    BY <2>2, <2>3
<1>4. QED
  BY <1>2, <1>3

LEMMA DaysPass ==
    ASSUME TypeOK, UNCHANGED now \/ now' = now + 1
    PROVE  Today \in Nat /\ Today' \in Nat /\ Today <= Today'
<1>1. now \in Nat
  BY BookingAssumption DEF TypeOK
<1>2. CASE now' = now + 1
  BY <1>1, <1>2, LaterDay
<1>3. CASE UNCHANGED now
  <2>1. Today' = Today
    BY <1>3 DEF Today
  <2>2. QED
    BY <1>1, <2>1, DayNumber
<1>4. QED
  BY <1>2, <1>3

Calendar == NoClash /\ Gone /\ FollowsTemplate

\* a lesson of a series is at its place still
SameTemplate(r) == series'[r].time = series[r].time /\ series'[r].days = series[r].days
Fits(l, r) == lessons'[l].slot.time = series'[r].time /\ lessons'[l].slot.day \in series'[r].days

LEMMA TemplateKept ==
    ASSUME TypeOK, TypeOK', FollowsTemplate, UNCHANGED now \/ now' = now + 1,
           \A l \in LessonIds, r \in SeriesIds :
              /\ lessons'[l] # None /\ lessons'[l].series = r /\ lessons'[l].status = "planned"
              /\ lessons'[l].slot.day >= Today'
              =>
                 \/ /\ lessons[l] # None /\ lessons[l].series = r /\ lessons[l].status = "planned"
                    /\ lessons'[l].slot = lessons[l].slot /\ SameTemplate(r)
                 \/ Fits(l, r)
    PROVE  FollowsTemplate'
<1>1. \A l \in LessonIds : lessons'[l] # None => lessons'[l].slot.day \in Nat
  BY BookingAssumption DEF TypeOK, Lesson, Slots, Days
<1>2. QED
  BY <1>1, DaysPass, TemplateStays DEF SameTemplate, Fits

LEMMA CalendarKept ==
    ASSUME TypeOK, TypeOK', Calendar, UNCHANGED <<lessons, booked, archive>>,
           UNCHANGED now \/ now' = now + 1,
           \A r \in SeriesIds : series[r] # None => SameTemplate(r)
    PROVE  Calendar'
<1>1. NoClash'
  BY DEF Calendar, NoClash, Present
<1>2. Gone'
  BY DEF Calendar, Gone
<1>3. \A l \in LessonIds, r \in SeriesIds : lessons[l] # None /\ lessons[l].series = r => series[r] # None
  BY NoneAssumption, BookingAssumption DEF TypeOK
<1>4. FollowsTemplate'
  BY <1>3, TemplateKept DEF Calendar
<1>5. QED
  BY <1>1, <1>2, <1>4 DEF Calendar

LEMMA CalendarInsert ==
    ASSUME TypeOK, TypeOK', Calendar, NEW row \in Lesson, Insert(row),
           UNCHANGED <<series, now, archive>>,
           row.checked => ~Busy(row.slot, {}),
           row.series # None => /\ row.slot.time = series[row.series].time
                                /\ row.slot.day \in series[row.series].days
    PROVE  Calendar' /\ \A l \in Present : lessons'[l] # None
<1> DEFINE k == booked + 1
<1>1. /\ booked' = k /\ k \in LessonIds /\ lessons[k] = None /\ lessons'[k] = row
      /\ \A l \in LessonIds : l # k => lessons'[l] = lessons[l]
  BY Inserted
<1>2. booked \in Nat /\ booked' = booked + 1 /\ booked < k /\ booked <= booked' /\ booked' \in Nat
  BY <1>1, BookingAssumption DEF TypeOK
<1> HIDE DEF k
<1>3. ASSUME NEW m \in LessonIds \ {k}, lessons'[m] # None, row.checked
      PROVE  ~Near(row.slot, lessons'[m].slot)
  <2>1. lessons'[m] = lessons[m]
    BY <1>1
  <2>2. ~Near(lessons[m].slot, row.slot)
    BY <1>3, <2>1 DEF Busy, Present
  <2>3. QED
    BY <2>1, <2>2, NearBoth
<1>4. NoClash'
  BY <1>1, <1>3, ClashStays DEF Calendar
<1>5. Gone'
  <2>1. \A l \in LessonIds : /\ archive'[l] = archive[l]
                             /\ lessons'[l] = None \/ lessons[l] # None \/ booked < l
    BY <1>1, <1>2
  <2>2. QED
    BY <1>2, <2>1, GoneStays DEF Calendar
<1>6. FollowsTemplate'
  <2>1. \A r \in SeriesIds : SameTemplate(r)
    BY DEF SameTemplate
  <2>2. \A r \in SeriesIds : row.series = r => Fits(k, r)
    BY <1>1, BookingAssumption DEF Fits
  <2>3. QED
    BY <1>1, <2>1, <2>2, TemplateKept DEF Calendar
<1>7. QED
  BY <1>1, <1>4, <1>5, <1>6 DEF Calendar, Present

LEMMA CalendarReplace ==
    ASSUME TypeOK, TypeOK', Calendar, NEW k \in LessonIds, NEW row \in Lesson,
           lessons' = [lessons EXCEPT ![k] = row], lessons[k] # None,
           UNCHANGED <<booked, series, now, archive>>,
           row.series = None, row.checked => ~Busy(row.slot, {k})
    PROVE  Calendar' /\ \A l \in Present : lessons'[l] # None
<1>1. lessons'[k] = row /\ \A l \in LessonIds : l # k => lessons'[l] = lessons[l]
  BY Replaced
<1>2. booked \in Nat
  BY BookingAssumption DEF TypeOK
<1>3. ASSUME NEW m \in LessonIds \ {k}, lessons'[m] # None, row.checked
      PROVE  ~Near(row.slot, lessons'[m].slot)
  <2>1. lessons'[m] = lessons[m]
    BY <1>1
  <2>2. ~Near(lessons[m].slot, row.slot)
    BY <1>3, <2>1 DEF Busy, Present
  <2>3. QED
    BY <2>1, <2>2, NearBoth
<1>4. NoClash'
  BY <1>1, <1>3, ClashStays DEF Calendar
<1>5. Gone'
  BY <1>1, <1>2, GoneStays DEF Calendar
<1>6. FollowsTemplate'
  <2>1. \A r \in SeriesIds : SameTemplate(r) /\ row.series # r
    BY BookingAssumption DEF SameTemplate
  <2>2. QED
    BY <1>1, <2>1, TemplateKept DEF Calendar
<1>7. QED
  BY <1>1, <1>4, <1>5, <1>6, NoneAssumption DEF Calendar, Present

LEMMA CalendarDelete ==
    ASSUME TypeOK, TypeOK', Calendar, NEW ids, lessons' = Without(ids), UNCHANGED <<booked, now>>,
           \A l \in LessonIds : \/ archive'[l] = archive[l]
                                \/ archive'[l] = archive[l] + 1 /\ lessons[l] # None /\ l \in ids,
           \A r \in SeriesIds : series[r] # None => LinkedTo(r) \subseteq ids \/ SameTemplate(r)
    PROVE  Calendar'
<1>1. \A l \in LessonIds : lessons'[l] = IF l \in ids THEN None ELSE lessons[l]
  BY Deleted
<1>2. booked \in Nat
  BY BookingAssumption DEF TypeOK
<1>3. NoClash'
  BY <1>1, ClashStays DEF Calendar
<1>4. Gone'
  BY <1>1, <1>2, GoneStays DEF Calendar
<1>5. \A l \in LessonIds, r \in SeriesIds : lessons[l] # None /\ lessons[l].series = r => series[r] # None
  BY NoneAssumption, BookingAssumption DEF TypeOK
<1>6. \A l \in LessonIds, r \in SeriesIds : lessons'[l] # None /\ lessons'[l].series = r => SameTemplate(r)
  BY <1>1, <1>5 DEF LinkedTo, Present
<1>7. FollowsTemplate'
  BY <1>1, <1>6, TemplateKept DEF Calendar
<1>8. QED
  BY <1>3, <1>4, <1>7 DEF Calendar

LEMMA CalendarStatus ==
    ASSUME TypeOK, TypeOK', Calendar, UpdateStatus
    PROVE  Calendar' /\ \A l \in Present : lessons'[l] # None
<1>1. /\ \A l \in LessonIds : lessons[l] = None => lessons'[l] = None
      /\ \A l \in LessonIds : lessons[l] # None =>
            /\ lessons'[l] \in Lesson
            /\ lessons'[l].slot = lessons[l].slot
            /\ lessons'[l].series = lessons[l].series /\ lessons'[l].checked = lessons[l].checked
            /\ lessons'[l].status = "planned" => lessons[l].status = "planned"
  BY StatusRows
<1>2. UNCHANGED <<booked, series, now, archive>> /\ booked \in Nat
  BY BookingAssumption DEF UpdateStatus, TypeOK
<1>3. NoClash'
  BY <1>1, ClashStays DEF Calendar
<1>4. Gone'
  BY <1>1, <1>2, GoneStays DEF Calendar
<1>5. FollowsTemplate'
  <2>1. \A r \in SeriesIds : SameTemplate(r)
    BY <1>2 DEF SameTemplate
  <2>2. QED
    BY <1>1, <1>2, <2>1, TemplateKept DEF Calendar
<1>6. QED
  BY <1>1, <1>3, <1>4, <1>5, NoneAssumption DEF Calendar, Present

\* what is kept beside the new row of a series: nothing of it that is
\* still to come, if it had a row before
LEMMA CalendarSaved ==
    ASSUME TypeOK, TypeOK', Calendar, NEW r \in SeriesIds, NEW row \in Series,
           NEW kept \in SUBSET LessonIds, SaveSeries(r, row, kept), kept \subseteq Present,
           \A l \in kept : lessons[l].series = r =>
              lessons[l].status # "planned" \/ ~(lessons[l].slot.day >= Today)
    PROVE  Calendar' /\ \A l \in kept : lessons'[l] # None
<1>1. /\ booked <= booked' /\ booked' \in 0..MaxLessons
      /\ series' = [series EXCEPT ![r] = row] /\ UNCHANGED <<now, archive>>
      /\ \A l \in LessonIds :
            \/ l <= booked /\ lessons'[l] = IF l \in kept THEN lessons[l] ELSE None
            \/ booked < l /\ lessons'[l] = None
            \/ booked < l /\ l <= booked' /\ \E d \in row.days : Generated(r, row, kept, l, d)
  BY Saved
<1>2. booked \in Nat /\ booked' \in Nat /\ LessonIds \subseteq Nat
  BY <1>1, BookingAssumption DEF TypeOK, LessonIds
<1> DEFINE Old(l) == l \in kept /\ lessons'[l] = lessons[l] /\ lessons[l] # None
           Day(l, d) == /\ d \in row.days /\ d \in Free(row, kept) /\ booked < l
                        /\ l = booked + Cardinality({e \in Free(row, kept) : e <= d})
                        /\ lessons'[l].slot = SlotOn(row, d) /\ lessons'[l].series = r
<1>3. ASSUME NEW l \in LessonIds, lessons'[l] # None
      PROVE  Old(l) \/ (booked < l /\ \E d \in row.days : Day(l, d))
  <2>1. CASE l <= booked /\ lessons'[l] = IF l \in kept THEN lessons[l] ELSE None
    BY <1>3, <2>1
  <2>2. CASE booked < l /\ l <= booked' /\ \E d \in row.days : Generated(r, row, kept, l, d)
    <3>1. PICK d \in row.days : Generated(r, row, kept, l, d)
      BY <2>2
    <3>2. /\ d \in Free(row, kept)
          /\ l = booked + Cardinality({e \in Free(row, kept) : e <= d})
      BY <3>1 DEF Generated
    <3>3. lessons'[l].slot = SlotOn(row, d) /\ lessons'[l].series = r
      BY <3>1, GeneratedRow
    <3>4. Day(l, d)
      BY <2>2, <3>2, <3>3
    <3>5. QED
      BY <2>2, <3>4
  <2>3. QED
    BY <1>1, <1>3, <2>1, <2>2
<1>4. \A d \in row.days : SlotOn(row, d).day = d /\ SlotOn(row, d).time = row.time
  BY SeriesRow
<1>5. ASSUME NEW l \in LessonIds, NEW m \in LessonIds \ {l}, lessons'[l] # None, lessons'[m] # None,
             NEW d \in row.days, Day(l, d)
      PROVE  ~Near(lessons'[l].slot, lessons'[m].slot)
  <2>1. CASE Old(m)
    <3>1. ~Near(lessons[m].slot, SlotOn(row, d))
      BY <1>5, <2>1 DEF Free
    <3>2. QED
      BY <1>5, <2>1, <3>1, NearBoth
  <2>2. CASE \E e \in row.days : Day(m, e)
    <3>1. PICK e \in row.days : Day(m, e)
      BY <2>2
    <3>2. e # d
      BY <1>5, <3>1
    <3>3. SlotOn(row, d).day # SlotOn(row, e).day
      BY <1>4, <3>2
    <3>4. QED
      BY <1>5, <3>1, <3>3, NearBoth
  <2>3. QED
    BY <1>3, <1>5, <2>1, <2>2
<1>6. NoClash'
  <2>1. ASSUME NEW l \in LessonIds, lessons'[l] # None
        PROVE  \/ lessons[l] # None /\ lessons'[l] = lessons[l]
               \/ \A m \in LessonIds \ {l} : lessons'[m] # None => ~Near(lessons'[l].slot, lessons'[m].slot)
    <3> HIDE DEF Day
    <3>1. QED
      BY <1>3, <1>5, <2>1
  <2>2. QED
    BY <2>1, ClashStays DEF Calendar
<1>7. Gone'
  <2>1. \A l \in LessonIds : /\ archive'[l] = archive[l]
                             /\ lessons'[l] = None \/ lessons[l] # None \/ booked < l
    <3> HIDE DEF Day
    <3>1. QED
      BY <1>1, <1>3
  <2>2. QED
    BY <1>1, <1>2, <2>1, GoneStays DEF Calendar
<1>8. FollowsTemplate'
  <2>1. series'[r] = row /\ \A k \in SeriesIds : k # r => SameTemplate(k)
    BY <1>1 DEF TypeOK, SameTemplate
  <2>2. Today' = Today
    BY <1>1 DEF Today
  <2>3. ASSUME NEW l \in LessonIds, NEW k \in SeriesIds, lessons'[l] # None, lessons'[l].series = k,
               lessons'[l].status = "planned", lessons'[l].slot.day >= Today'
        PROVE  \/ lessons[l] # None /\ lessons'[l] = lessons[l] /\ SameTemplate(k)
               \/ Fits(l, k)
    <3>1. CASE Old(l)
      <4>1. k # r
        BY <2>2, <2>3, <3>1
      <4>2. QED
        BY <2>1, <3>1, <4>1
    <3>2. ASSUME NEW d \in row.days, Day(l, d)
          PROVE  Fits(l, k)
      BY <1>4, <2>1, <2>3, <3>2 DEF Fits
    <3> HIDE DEF Day
    <3>3. QED
      BY <1>3, <2>3, <3>1, <3>2
  <2>4. QED
    BY <1>1, <2>3, TemplateKept DEF Calendar
<1>9. \A l \in kept : lessons'[l] # None
  <2> TAKE l \in kept
  <2>1. l \in LessonIds /\ lessons[l] # None /\ l <= booked
    BY DEF Present, TypeOK
  <2>2. ~(booked < l)
    BY <1>2, <2>1
  <2>3. lessons'[l] = lessons[l]
    BY <1>1, <2>1, <2>2
  <2>4. QED
    BY <2>1, <2>3
<1>10. QED
  BY <1>6, <1>7, <1>8, <1>9 DEF Calendar
-----------------------------------------------------------------------------
(* Every step, one request after the other.                                *)
VanishStep ==
    \A l \in Present : lessons'[l] = None =>
          \/ archive'[l] = archive[l] + 1
          \/ TutorDelete(l)
          \/ \E r \in SeriesIds : DeleteSeries(r)
          \/ \E r \in SeriesIds : series'[r] # None /\ UpdateSeries(r, series'[r])
Serial == Sole /\ Hands /\ Calendar

LEMMA SerialParts == SerialInv <=> TypeInv /\ Serial
BY DEF SerialInv, Serial, Calendar

LEMMA SerialBegin ==
    ASSUME ~Overlap, TypeOK, TypeOK', Serial, NEW q \in Requests, NEW r \in Request, Begin(q, r),
           UNCHANGED <<lessons, booked, series, blocked, now, archive>>, Hand(q)'
    PROVE  Serial' /\ VanishStep
<1>1. Others(q) /\ \A p \in Requests \ {q} : Idle(p)
  BY Began, QuietIdle DEF AllIdle
<1>2. Sole' /\ Hands'
  BY <1>1, OneLeft
<1>3. Calendar'
  BY CalendarKept DEF Serial, SameTemplate
<1>4. QED
  BY <1>2, <1>3 DEF Serial, VanishStep, Present

LEMMA SerialBookBegin ==
    ASSUME ~Overlap, TypeOK, TypeOK', Serial,
           NEW q \in Requests, NEW c \in Contracts, NEW s \in Slots, BookBegin(q, c, s)
    PROVE  Serial' /\ VanishStep
<1> DEFINE r == [op |-> "book", contract |-> c, slot |-> s]
<1>1. r \in Request /\ r.op = "book" /\ r.slot = s
  BY DEF Request
<1>2. /\ Begin(q, r) /\ UNCHANGED <<lessons, booked, series, blocked, now, archive>>
      /\ ~Busy(s, {})
  BY DEF BookBegin, Refused
<1> HIDE DEF r
<1>3. req'[q] = r
  BY <1>1, <1>2, Began
<1>4. /\ ~(\E l \in LessonIds : lessons'[l] # None /\ Near(lessons'[l].slot, s))
      /\ ~(\E b \in blocked' : Near(b, s))
  BY <1>2 DEF Busy, Present
<1>5. Hand(q)'
  BY <1>1, <1>3, <1>4 DEF Hand, HandBook, HandCancel, HandMove, HandSeries, HandEnd, Is, Busy, Present
<1>6. QED
  BY <1>1, <1>2, <1>5, SerialBegin

LEMMA SerialCancelBegin ==
    ASSUME ~Overlap, TypeOK, TypeOK', Serial,
           NEW q \in Requests, NEW l \in LessonIds, CancelBegin(q, l)
    PROVE  Serial' /\ VanishStep
<1> DEFINE r == [op |-> "cancel", id |-> l]
<1>1. r \in Request /\ r.op = "cancel" /\ r.id = l
  BY DEF Request
<1>2. /\ Begin(q, r) /\ UNCHANGED <<lessons, booked, series, blocked, now, archive>>
      /\ lessons[l] # None
  BY DEF CancelBegin
<1> HIDE DEF r
<1>3. req'[q] = r
  BY <1>1, <1>2, Began
<1>4. Hand(q)'
  BY <1>1, <1>2, <1>3 DEF Hand, HandBook, HandCancel, HandMove, HandSeries, HandEnd, Is
<1>5. QED
  BY <1>1, <1>2, <1>4, SerialBegin

LEMMA SerialMoveBegin ==
    ASSUME ~Overlap, TypeOK, TypeOK', Serial,
           NEW q \in Requests, NEW l \in LessonIds, NEW s \in Slots, MoveBegin(q, l, s)
    PROVE  Serial' /\ VanishStep
<1> DEFINE r == [op |-> "move", id |-> l, row |-> lessons[l], slot |-> s]
<1>1. lessons[l] \in Lesson
  BY DEF MoveBegin, TypeOK
<1>2. r \in Request /\ r.op = "move" /\ r.id = l /\ r.row = lessons[l] /\ r.slot = s
  BY <1>1 DEF Request
<1>3. /\ Begin(q, r) /\ UNCHANGED <<lessons, booked, series, blocked, now, archive>>
      /\ ~Busy(s, {l})
  BY DEF MoveBegin, Refused
<1> HIDE DEF r
<1>4. req'[q] = r
  BY <1>2, <1>3, Began
<1>5. /\ ~(\E m \in LessonIds \ {l} : lessons'[m] # None /\ Near(lessons'[m].slot, s))
      /\ ~(\E b \in blocked' : Near(b, s))
  BY <1>3 DEF Busy, Present
<1>6. lessons'[l] = r.row
  BY <1>2, <1>3
<1>7. Hand(q)'
  BY <1>2, <1>4, <1>5, <1>6 DEF Hand, HandBook, HandCancel, HandMove, HandSeries, HandEnd, Is, Busy, Present
<1>8. QED
  BY <1>2, <1>3, <1>7, SerialBegin

LEMMA SerialEndBegin ==
    ASSUME ~Overlap, TypeOK, TypeOK', Serial,
           NEW q \in Requests, NEW r \in SeriesIds, EndBegin(q, r)
    PROVE  Serial' /\ VanishStep
<1> DEFINE e == [op |-> "end", id |-> r, row |-> series[r], dropped |-> Upcoming(LinkedTo(r))]
<1>1. series[r] \in Series /\ Upcoming(LinkedTo(r)) \subseteq LessonIds
  BY DEF EndBegin, TypeOK, Upcoming, LinkedTo, Present
<1>2. /\ e \in Request /\ e.op = "end" /\ e.id = r /\ e.row = series[r]
      /\ e.dropped = Upcoming(LinkedTo(r))
  BY <1>1 DEF Request
<1>3. Begin(q, e) /\ UNCHANGED <<lessons, booked, series, blocked, now, archive>>
  BY DEF EndBegin
<1> HIDE DEF e
<1>4. req'[q] = e
  BY <1>2, <1>3, Began
<1>5. series'[r] = e.row /\ Upcoming(LinkedTo(r))' = e.dropped
  BY <1>2, <1>3 DEF Upcoming, LinkedTo, Present, Today
<1>6. Hand(q)'
  BY <1>2, <1>4, <1>5 DEF Hand, HandBook, HandCancel, HandMove, HandSeries, HandEnd, Is
<1>7. QED
  BY <1>2, <1>3, <1>6, SerialBegin

\* what the series request has in hand when it begins: all days to do
LEMMA SeriesInHand ==
    ASSUME TypeOK, TypeOK', UNCHANGED <<lessons, blocked>>,
           NEW q \in Requests, NEW r \in SeriesIds, NEW row \in Series,
           NEW by \in {"family", "tutor", "form"}, SeriesBegin(q, r, row, by), series'[r] = row,
           by = "family" => series[r] = None
    PROVE  Hand(q)'
<1>1. /\ req'[q].op = "series" /\ req'[q].id = r /\ req'[q].row = row
      /\ req'[q].todo = row.days /\ req'[q].taken = Taken(row, by)
      /\ req'[q].created = {} /\ req'[q].skipped = {} /\ req'[q].by = by
  BY SeriesBegan
<1>2. \A d \in row.days :
         \/ SlotOn(row, d) \in Taken(row, by)
         \/ /\ ~(\E l \in LessonIds : lessons'[l] # None /\ Near(lessons'[l].slot, SlotOn(row, d)))
            /\ ~(\E b \in blocked' : Near(b, SlotOn(row, d)))
  BY TakenSlots DEF Busy, Present
<1>3. \A d \in req'[q].todo : SlotOn(req'[q].row, d) \in req'[q].taken \/ ~Busy(SlotOn(req[q].row, d), {})'
  BY <1>1, <1>2 DEF Busy, Present
<1>4. ASSUME by = "family" PROVE LinkedTo(r)' = {}
  <2>1. \A l \in LessonIds : lessons[l] # None => lessons[l].series # r
    BY <1>4, BookingAssumption DEF TypeOK
  <2>2. QED
    BY <2>1 DEF LinkedTo, Present
<1>5. LinkedTo(req[q].id)' = LinkedTo(r)'
  BY <1>1 DEF LinkedTo, Present
<1>6. HandSeries(q)'
  BY <1>1, <1>3, <1>4, <1>5 DEF HandSeries, Passed, Made
<1>7. QED
  BY <1>1, <1>6 DEF Hand, HandBook, HandCancel, HandMove, HandEnd, Is

LEMMA SerialSeriesCreate ==
    ASSUME ~Overlap, TypeOK, TypeOK', Serial,
           NEW q \in Requests, NEW row \in Series, NEW by \in {"family", "form"}, SeriesCreate(q, row, by)
    PROVE  Serial' /\ VanishStep
<1>1. PICK r \in SeriesIds : /\ series[r] = None /\ series' = [series EXCEPT ![r] = row]
                             /\ SeriesBegin(q, r, row, by)
  BY DEF SeriesCreate
<1>2. UNCHANGED <<lessons, booked, blocked, now, archive>>
  BY DEF SeriesCreate
<1>3. series'[r] = row /\ \A k \in SeriesIds : k # r => series'[k] = series[k]
  BY <1>1 DEF TypeOK
<1>4. Hand(q)'
  BY <1>1, <1>2, <1>3, SeriesInHand
<1>5. Quiet /\ Others(q)
  BY <1>1, SeriesBegan
<1>6. Sole' /\ Hands'
  BY <1>4, <1>5, QuietIdle, OneLeft DEF AllIdle
<1>7. Calendar'
  BY <1>1, <1>2, <1>3, CalendarKept DEF Serial, SameTemplate
<1>8. QED
  BY <1>2, <1>6, <1>7 DEF Serial, VanishStep, Present

LEMMA SerialGenerate ==
    ASSUME ~Overlap, TypeOK, TypeOK', Serial,
           NEW q \in Requests, NEW r \in SeriesIds, Generate(q, r)
    PROVE  Serial' /\ VanishStep
<1>1. /\ series[r] \in Series /\ SeriesBegin(q, r, series[r], "tutor")
      /\ UNCHANGED <<lessons, booked, series, blocked, now, archive>>
  BY DEF Generate, TypeOK
<1> DEFINE row == series[r]
           by == "tutor"
<1>2. /\ row \in Series /\ by \in {"family", "tutor", "form"} /\ SeriesBegin(q, r, row, by)
      /\ by # "family" /\ series'[r] = row
  BY <1>1
<1> HIDE DEF row, by
<1>3. Hand(q)'
  BY <1>1, <1>2, SeriesInHand
<1>4. Quiet /\ Others(q)
  BY <1>2, SeriesBegan
<1>5. Sole' /\ Hands'
  BY <1>3, <1>4, QuietIdle, OneLeft DEF AllIdle
<1>6. Calendar'
  BY <1>1, CalendarKept DEF Serial, SameTemplate
<1>7. QED
  BY <1>1, <1>5, <1>6 DEF Serial, VanishStep, Present

LEMMA SerialBookCreate ==
    ASSUME TypeOK, TypeOK', Serial, NEW q \in Requests, BookCreate(q)
    PROVE  Serial' /\ VanishStep
<1> DEFINE c == req[q].contract
           s == req[q].slot
           row == New(c, s, None, TRUE)
<1>1. /\ Is(q, "book") /\ Insert(row) /\ End(q) /\ UNCHANGED <<series, blocked, now, archive>>
  BY DEF BookCreate
<1>2. c \in Contracts /\ s \in Slots /\ ~Busy(s, {})
  BY <1>1, RequestFields DEF Serial, Hands, Hand, HandBook
<1> HIDE DEF c, s
<1>3. row \in Lesson /\ row.slot = s /\ row.series = None
  BY <1>2 DEF New, Lesson
<1> HIDE DEF row
<1>4. Calendar' /\ \A l \in Present : lessons'[l] # None
  BY <1>1, <1>2, <1>3, CalendarInsert DEF Serial
<1>5. Sole' /\ Hands'
  BY <1>1, AllEnded DEF Serial, Is
<1>6. QED
  BY <1>4, <1>5 DEF Serial, VanishStep

LEMMA SerialCancelCommit ==
    ASSUME TypeOK, TypeOK', Serial, NEW q \in Requests, CancelCommit(q)
    PROVE  Serial' /\ VanishStep
<1> DEFINE k == req[q].id
<1>1. /\ Is(q, "cancel") /\ End(q) /\ UNCHANGED <<booked, series, blocked, now>>
      /\ lessons' = Without({k}) /\ archive' = [archive EXCEPT ![k] = @ + 1]
  BY DEF CancelCommit
<1>2. k \in LessonIds /\ lessons[k] # None
  BY <1>1, RequestFields DEF Serial, Hands, Hand, HandCancel
<1> HIDE DEF k
<1>3. archive'[k] = archive[k] + 1 /\ \A l \in LessonIds : l # k => archive'[l] = archive[l]
  BY <1>1, <1>2 DEF TypeOK
<1>4. Calendar'
  BY <1>1, <1>2, <1>3, CalendarDelete DEF Serial, SameTemplate
<1>5. VanishStep
  BY <1>1, <1>3, Deleted DEF VanishStep, Present
<1>6. Sole' /\ Hands'
  BY <1>1, AllEnded DEF Serial, Is
<1>7. QED
  BY <1>4, <1>5, <1>6 DEF Serial

LEMMA SerialMoveSave ==
    ASSUME TypeOK, TypeOK', Serial, NEW q \in Requests, MoveSave(q)
    PROVE  Serial' /\ VanishStep
<1> DEFINE k == req[q].id
           s == req[q].slot
           row == Moved(req[q].row, s, TRUE)
<1>1. /\ Is(q, "move") /\ End(q) /\ UNCHANGED <<booked, series, blocked, now, archive>>
      /\ lessons' = [lessons EXCEPT ![k] = row]
  BY DEF MoveSave
<1>2. /\ k \in LessonIds /\ req[q].row \in Lesson /\ s \in Slots
      /\ lessons[k] = req[q].row /\ ~Busy(s, {k})
  BY <1>1, RequestFields DEF Serial, Hands, Hand, HandMove
<1>3. row \in Lesson /\ row.slot = s /\ row.series = None
  BY <1>2, MovedRow
<1> HIDE DEF k, s, row
<1>4. lessons[k] # None
  BY <1>2, NoneAssumption
<1>5. Calendar' /\ \A l \in Present : lessons'[l] # None
  BY <1>1, <1>2, <1>3, <1>4, CalendarReplace DEF Serial
<1>6. Sole' /\ Hands'
  BY <1>1, AllEnded DEF Serial, Is
<1>7. QED
  BY <1>5, <1>6 DEF Serial, VanishStep

LEMMA SerialEndCommit ==
    ASSUME TypeOK, TypeOK', Serial, NEW q \in Requests, EndCommit(q)
    PROVE  Serial' /\ VanishStep
<1> DEFINE k == req[q].id
           ids == Upcoming(LinkedTo(k))
           row == [req[q].row EXCEPT !.active = FALSE]
<1>1. /\ Is(q, "end") /\ End(q) /\ UNCHANGED <<booked, blocked, now>>
      /\ lessons' = Without(ids) /\ series' = [series EXCEPT ![k] = row]
      /\ archive' = [l \in LessonIds |-> archive[l] + IF l \in req[q].dropped THEN 1 ELSE 0]
  BY DEF EndCommit
<1>2. /\ k \in SeriesIds /\ req[q].row \in Series /\ series[k] = req[q].row
      /\ req[q].dropped = ids
  BY <1>1, RequestFields DEF Serial, Hands, Hand, HandEnd
<1>3. row.time = series[k].time /\ row.days = series[k].days
  BY <1>2 DEF Series
<1>4. ids \subseteq Present
  BY DEF Upcoming, LinkedTo
<1> HIDE DEF k, ids, row
<1>5. \A l \in LessonIds : /\ archive[l] \in Nat
                           /\ archive'[l] = archive[l] + IF l \in ids THEN 1 ELSE 0
  BY <1>1, <1>2 DEF TypeOK
<1>6. \A l \in LessonIds : \/ archive'[l] = archive[l]
                           \/ archive'[l] = archive[l] + 1 /\ lessons[l] # None /\ l \in ids
  BY <1>4, <1>5 DEF Present
<1>7. \A r \in SeriesIds : SameTemplate(r)
  BY <1>1, <1>2, <1>3 DEF SameTemplate, TypeOK
<1>8. Calendar'
  BY <1>1, <1>6, <1>7, CalendarDelete DEF Serial
<1>9. VanishStep
  BY <1>1, <1>5, Deleted DEF VanishStep, Present
<1>10. Sole' /\ Hands'
  BY <1>1, AllEnded DEF Serial, Is
<1>11. QED
  BY <1>8, <1>9, <1>10 DEF Serial

\* what the request with a series has in hand, in words of its own
LEMMA SeriesHeld ==
    ASSUME Hands, NEW q \in Requests, Is(q, "series")
    PROVE  /\ series[req[q].id] = req[q].row
           /\ req[q].todo \subseteq req[q].row.days
           /\ Made(q) \subseteq Passed(q)
           /\ \A d \in req[q].todo :
                 SlotOn(req[q].row, d) \in req[q].taken \/ ~Busy(SlotOn(req[q].row, d), {})
           /\ \A d \in Passed(q) : Exists(req[q].row.contract, SlotOn(req[q].row, d)) <=> d \in Made(q)
           /\ \A d \in Passed(q) : d \in Made(q) \/ SlotOn(req[q].row, d) \in req[q].taken
           /\ req[q].by = "family" /\ req[q].created = {} => LinkedTo(req[q].id) = {}
BY DEF Hands, Hand, HandSeries

\* after a day without a lesson
LEMMA DayWithout ==
    ASSUME TypeOK, Hands, NEW q \in Requests, Is(q, "series"), NEW d \in req[q].todo,
           NEW skipped \in SUBSET {d}, DayDone(q, d, {}, skipped),
           UNCHANGED <<lessons, series, blocked>>,
           Exists(req[q].row.contract, SlotOn(req[q].row, d)) <=> d \in skipped,
           d \in skipped \/ SlotOn(req[q].row, d) \in req[q].taken
    PROVE  Hand(q)'
<1>1. /\ req'[q].op = "series" /\ req'[q].id = req[q].id /\ req'[q].row = req[q].row
      /\ req'[q].taken = req[q].taken /\ req'[q].by = req[q].by
      /\ req'[q].todo = req[q].todo \ {d} /\ req'[q].created = req[q].created
      /\ req'[q].skipped = req[q].skipped \cup skipped
  BY DEF DayDone
<1>2. d \in req[q].row.days
  BY SeriesHeld
<1>3. Passed(q)' = Passed(q) \cup {d} /\ Made(q)' = Made(q) \cup skipped
  BY <1>1, <1>2 DEF Passed, Made
<1>4. /\ \A c, s : Exists(c, s)' <=> Exists(c, s)
      /\ \A s : Busy(s, {})' <=> Busy(s, {})
      /\ LinkedTo(req[q].id)' = LinkedTo(req[q].id)
  BY <1>1 DEF Exists, Busy, LinkedTo, Present
<1>5. series'[req[q].id] = req[q].row
  BY SeriesHeld
<1>6. d \notin Made(q)
  BY SeriesHeld DEF Passed
<1>7. HandSeries(q)'
  <2>1. Made(q)' \subseteq Passed(q)'
    BY <1>3, SeriesHeld
  <2>2. \A e \in req'[q].todo :
           SlotOn(req[q].row, e) \in req[q].taken \/ ~Busy(SlotOn(req[q].row, e), {})
    BY <1>1, SeriesHeld
  <2>3. \A e \in Passed(q) \cup {d} :
           /\ Exists(req[q].row.contract, SlotOn(req[q].row, e)) <=> e \in Made(q) \cup skipped
           /\ e \in Made(q) \cup skipped \/ SlotOn(req[q].row, e) \in req[q].taken
    <3>1. \A e \in Passed(q) : e # d
      BY DEF Passed
    <3>2. QED
      BY <1>6, <3>1, SeriesHeld
  <2>4. req[q].by = "family" /\ req[q].created = {} => LinkedTo(req[q].id) = {}
    BY SeriesHeld
  <2>5. req'[q].todo \subseteq req[q].row.days
    BY <1>1, SeriesHeld
  <2>6. QED
    BY <1>1, <1>3, <1>4, <1>5, <2>1, <2>2, <2>3, <2>4, <2>5 DEF HandSeries
<1>8. QED
  BY <1>1, <1>7 DEF Hand, HandBook, HandCancel, HandMove, HandEnd, Is

\* after a day that gets its lesson: it is too near none of the other days
LEMMA DayWith ==
    ASSUME TypeOK, Hands, NEW q \in Requests, Is(q, "series"), NEW d \in req[q].todo,
           DayDone(q, d, {d}, {}), UNCHANGED <<series, blocked>>,
           NEW row \in Lesson, Insert(row), row.slot = SlotOn(req[q].row, d),
           row.contract = req[q].row.contract
    PROVE  Hand(q)'
<1>1. /\ req'[q].op = "series" /\ req'[q].id = req[q].id /\ req'[q].row = req[q].row
      /\ req'[q].taken = req[q].taken /\ req'[q].by = req[q].by
      /\ req'[q].todo = req[q].todo \ {d} /\ req'[q].created = req[q].created \cup {d}
      /\ req'[q].skipped = req[q].skipped
  BY DEF DayDone
<1> DEFINE a == req[q].row
           On(e) == SlotOn(req[q].row, e)
<1>2. /\ d \in a.days /\ a \in Series /\ req[q].todo \subseteq a.days /\ a.days \subseteq Days
      /\ \A e \in a.days : On(e).day = e
  <2>1. a \in Series /\ d \in a.days /\ req[q].todo \subseteq a.days
    BY SeriesHeld, RequestFields
  <2>2. QED
    BY <2>1, SeriesRow
<1>3. Passed(q)' = Passed(q) \cup {d} /\ Made(q)' = Made(q) \cup {d}
  BY <1>1, <1>2 DEF Passed, Made
<1>4. \E k \in LessonIds : /\ lessons[k] = None /\ lessons'[k] = row
                           /\ \A l \in LessonIds : l # k => lessons'[l] = lessons[l]
  BY Inserted
<1>5. PICK k \in LessonIds : /\ lessons[k] = None /\ lessons'[k] = row
                             /\ \A l \in LessonIds : l # k => lessons'[l] = lessons[l]
  BY <1>4
<1>6. row # None /\ row.slot = On(d)
  BY NoneAssumption
<1> HIDE DEF On
<1>7. \A e \in a.days \ {d} : /\ Exists(a.contract, On(e))' <=> Exists(a.contract, On(e))
                              /\ Busy(On(e), {})' <=> Busy(On(e), {})
  <2> TAKE e \in a.days \ {d}
  <2>1. On(e) # On(d) /\ ~Near(On(d), On(e))
    BY <1>2, NearBoth
  <2>2. ASSUME NEW c
        PROVE  (\E l \in LessonIds : /\ lessons'[l] # None
                                     /\ lessons'[l].contract = c /\ lessons'[l].slot = On(e))
                 <=> (\E l \in LessonIds : /\ lessons[l] # None
                                           /\ lessons[l].contract = c /\ lessons[l].slot = On(e))
    BY <1>5, <1>6, <2>1
  <2>3. (\E l \in LessonIds : lessons'[l] # None /\ Near(lessons'[l].slot, On(e)))
          <=> (\E l \in LessonIds : lessons[l] # None /\ Near(lessons[l].slot, On(e)))
    BY <1>5, <1>6, <2>1
  <2>4. On(e)' = SlotOn(req'[q].row, e) /\ On(e) = SlotOn(req[q].row, e) /\ a' = a
    BY <1>1 DEF On
  <2>5. QED
    BY <1>1, <2>2, <2>3, <2>4 DEF Exists, Busy, Present
<1>8. Exists(a.contract, On(d))'
  <2>1. lessons'[k] # None /\ lessons'[k].contract = a.contract /\ lessons'[k].slot = On(d)
    BY <1>5, <1>6
  <2>2. On(d)' = On(d) /\ a' = a
    BY <1>1 DEF On
  <2>3. QED
    BY <2>1, <2>2 DEF Exists, Present
<1>9. /\ \A e \in a.days \ {d} : Exists(a.contract, SlotOn(a, e))' <=> Exists(a.contract, SlotOn(a, e))
      /\ \A e \in a.days \ {d} : Busy(SlotOn(a, e), {})' <=> Busy(SlotOn(a, e), {})
      /\ Exists(a.contract, SlotOn(a, d))'
  BY <1>7, <1>8 DEF On
<1>10. d \notin Made(q) /\ Made(q) \subseteq Passed(q) /\ Passed(q) \subseteq a.days \ {d}
  BY SeriesHeld DEF Passed
<1>11. HandSeries(q)'
  <2>1. /\ \A e \in (req[q].todo)' :
              SlotOn(req[q].row, e)' \in (req[q].taken)' \/ ~Busy(SlotOn(req[q].row, e), {})'
        /\ (req[q].todo)' \subseteq (req[q].row.days)'
    <3>1. \A e \in req'[q].todo : SlotOn(a, e) \in req[q].taken \/ ~Busy(SlotOn(a, e), {})'
      BY <1>1, <1>2, <1>9, SeriesHeld
    <3>2. QED
      BY <1>1, <1>2, <3>1
  <2>2. \A e \in Passed(q)' :
           /\ Exists(req[q].row.contract, SlotOn(req[q].row, e))' <=> e \in Made(q)'
           /\ e \in Made(q)' \/ SlotOn(req[q].row, e)' \in (req[q].taken)'
    <3>1. \A e \in Passed(q) \cup {d} : Exists(a.contract, SlotOn(a, e))' <=> e \in Made(q) \cup {d}
      BY <1>9, <1>10, SeriesHeld
    <3>2. \A e \in Passed(q) \cup {d} : e \in Made(q) \cup {d} \/ SlotOn(a, e) \in req[q].taken
      BY <1>10, SeriesHeld
    <3>3. QED
      BY <1>1, <1>3, <3>1, <3>2
  <2>3. (req[q].created)' # {} /\ series'[(req[q].id)'] = (req[q].row)'
    BY <1>1, SeriesHeld
  <2>4. Made(q)' \subseteq Passed(q)'
    BY <1>3, <1>10
  <2>5. QED
    BY <2>1, <2>2, <2>3, <2>4 DEF HandSeries
<1>12. QED
  BY <1>1, <1>11 DEF Hand, HandBook, HandCancel, HandMove, HandEnd, Is

LEMMA SerialSeriesDay ==
    ASSUME TypeOK, TypeOK', Serial, NEW q \in Requests, SeriesDay(q)
    PROVE  Serial' /\ VanishStep
<1> DEFINE d == Min(req[q].todo)
           s == SlotOn(req[q].row, d)
           there == Exists(req[q].row.contract, s)
           row == Updated(New(req[q].row.contract, s, req[q].id, TRUE))
<1>1. /\ Is(q, "series") /\ d \in req[q].todo /\ d \in Days
      /\ UNCHANGED <<series, blocked, now, archive>>
      /\ \/ /\ there \/ (s \notin req[q].taken /\ series[req[q].id] = None)
            /\ DayDone(q, d, {}, {d}) /\ UNCHANGED <<lessons, booked>>
         \/ /\ ~there /\ s \in req[q].taken
            /\ DayDone(q, d, {}, {}) /\ UNCHANGED <<lessons, booked>>
         \/ /\ ~there /\ s \notin req[q].taken
            /\ DayDone(q, d, {d}, {}) /\ Insert(row)
  BY DaySteps, Zenon
<1>2. /\ s.day = d /\ s.time = req[q].row.time
      /\ row \in Lesson /\ row.slot = s /\ row.series = req[q].id
      /\ row.contract = req[q].row.contract
  BY <1>1, DayRow
<1>3. series[req[q].id] = req[q].row /\ req[q].row # None /\ d \in req[q].row.days
  <2>1. series[req[q].id] = req[q].row /\ d \in req[q].row.days
    BY <1>1, SeriesHeld DEF Serial
  <2>2. QED
    BY <1>1, <2>1, RequestFields, SeriesRow
<1>4. s \notin req[q].taken => ~Busy(s, {})
  BY <1>1, SeriesHeld DEF Serial
<1> HIDE DEF d, row
<1>5. \A p \in Requests \ {q} : Idle(p)
  BY <1>1 DEF Serial, Sole, Is
<1>6. CASE there /\ DayDone(q, d, {}, {d}) /\ UNCHANGED <<lessons, booked>>
  <2>1. Hand(q)'
    BY <1>1, <1>6, DayWithout DEF Serial
  <2>2. Sole' /\ Hands'
    BY <1>5, <1>6, <2>1, OneLeft DEF DayDone
  <2>3. Calendar'
    BY <1>1, <1>6, CalendarKept DEF Serial, SameTemplate
  <2>4. QED
    BY <1>6, <2>2, <2>3 DEF Serial, VanishStep, Present
<1>7. CASE ~there /\ s \in req[q].taken /\ DayDone(q, d, {}, {}) /\ UNCHANGED <<lessons, booked>>
  <2>1. Hand(q)'
    BY <1>1, <1>7, DayWithout DEF Serial
  <2>2. Sole' /\ Hands'
    BY <1>5, <1>7, <2>1, OneLeft DEF DayDone
  <2>3. Calendar'
    BY <1>1, <1>7, CalendarKept DEF Serial, SameTemplate
  <2>4. QED
    BY <1>7, <2>2, <2>3 DEF Serial, VanishStep, Present
<1>8. CASE s \notin req[q].taken /\ DayDone(q, d, {d}, {}) /\ Insert(row)
  <2>1. Hand(q)'
    BY <1>1, <1>2, <1>8, DayWith DEF Serial
  <2>2. Sole' /\ Hands'
    BY <1>5, <1>8, <2>1, OneLeft DEF DayDone
  <2>3. Calendar' /\ \A l \in Present : lessons'[l] # None
    <3>1. row.slot.time = series[row.series].time /\ row.slot.day \in series[row.series].days
      BY <1>2, <1>3
    <3>2. ~Busy(row.slot, {})
      BY <1>2, <1>4, <1>8
    <3>3. QED
      BY <1>1, <1>2, <1>8, <3>1, <3>2, CalendarInsert DEF Serial
  <2>4. QED
    BY <2>2, <2>3 DEF Serial, VanishStep
<1>9. QED
  BY <1>1, <1>3, <1>6, <1>7, <1>8

LEMMA SerialSeriesDone ==
    ASSUME TypeOK, TypeOK', Serial, NEW q \in Requests, SeriesDone(q)
    PROVE  Serial' /\ VanishStep
<1> DEFINE k == req[q].id
<1>1. /\ Is(q, "series") /\ End(q) /\ UNCHANGED <<blocked, now, archive>>
      /\ \/ /\ req[q].by = "family" /\ Nowhere(q)
            /\ series' = [series EXCEPT ![k] = None]
            /\ lessons' = Without(LinkedTo(k)) /\ UNCHANGED booked
         \/ /\ UNCHANGED series
            /\ \E row \in Lesson : row.series = None /\ ~row.checked /\ Insert(row)
         \/ UNCHANGED <<lessons, booked, series>>
  BY DoneSteps, Zenon
<1>2. k \in SeriesIds /\ (req[q].by = "family" /\ Nowhere(q) => LinkedTo(k) = {})
  BY <1>1, RequestFields, SeriesHeld DEF Serial, Nowhere
<1>3. Sole' /\ Hands'
  BY <1>1, AllEnded DEF Serial, Is
<1> HIDE DEF k
<1>4. CASE /\ req[q].by = "family" /\ Nowhere(q)
           /\ series' = [series EXCEPT ![k] = None]
           /\ lessons' = Without(LinkedTo(k)) /\ UNCHANGED booked
  <2>1. \A r \in SeriesIds : r # k => SameTemplate(r)
    BY <1>2, <1>4 DEF SameTemplate, TypeOK
  <2>2. Calendar'
    BY <1>1, <1>4, <2>1, CalendarDelete DEF Serial
  <2>3. \A l \in Present : lessons'[l] # None
    BY <1>2, <1>4, Deleted DEF Present
  <2>4. QED
    BY <1>3, <2>2, <2>3 DEF Serial, VanishStep
<1>5. CASE UNCHANGED series /\ \E row \in Lesson : row.series = None /\ ~row.checked /\ Insert(row)
  <2>1. PICK row \in Lesson : row.series = None /\ ~row.checked /\ Insert(row)
    BY <1>5
  <2>2. Calendar' /\ \A l \in Present : lessons'[l] # None
    BY <1>1, <1>5, <2>1, CalendarInsert DEF Serial
  <2>3. QED
    BY <1>3, <2>2 DEF Serial, VanishStep
<1>6. CASE UNCHANGED <<lessons, booked, series>>
  <2>1. Calendar'
    BY <1>1, <1>6, CalendarKept DEF Serial, SameTemplate
  <2>2. QED
    BY <1>3, <1>6, <2>1 DEF Serial, VanishStep, Present
<1>7. QED
  BY <1>1, <1>4, <1>5, <1>6

LEMMA SerialTutorBook ==
    ASSUME ~Overlap, TypeOK, TypeOK', Serial, NEW c \in Contracts, NEW s \in Slots, TutorBook(c, s)
    PROVE  Serial' /\ VanishStep
<1> DEFINE row == Updated(New(c, s, None, FALSE))
<1>1. Quiet /\ Insert(row) /\ UNCHANGED <<series, blocked, now, archive, req>>
  BY DEF TutorBook
<1>2. row \in Lesson /\ row.series = None /\ ~row.checked
  BY HandRow
<1> HIDE DEF row
<1>3. Calendar' /\ \A l \in Present : lessons'[l] # None
  BY <1>1, <1>2, CalendarInsert DEF Serial
<1>4. QED
  BY <1>1, <1>3, QuietStays DEF Serial, VanishStep

LEMMA SerialTutorMoves ==
    ASSUME ~Overlap, TypeOK, TypeOK', Serial, NEW l \in LessonIds, NEW s \in Slots,
           TutorEdit(l, s) \/ TutorReschedule(l, s)
    PROVE  Serial' /\ VanishStep
<1> DEFINE a == Moved(lessons[l], s, FALSE)
<1>1. /\ Quiet /\ lessons[l] # None
      /\ lessons' = [lessons EXCEPT ![l] = a] \/ lessons' = [lessons EXCEPT ![l] = Updated(a)]
      /\ UNCHANGED <<booked, series, blocked, now, archive, req>>
  BY DEF TutorEdit, TutorReschedule, TypeOK
<1>2. lessons[l] \in Lesson
  BY <1>1 DEF TypeOK
<1>3. a \in Lesson /\ a.series = None /\ ~a.checked
  BY <1>2 DEF Moved, Lesson
<1> HIDE DEF a
<1>4. Updated(a) \in Lesson /\ Updated(a).series = None /\ ~Updated(a).checked
  BY <1>3, UpdatedRow
<1>5. PICK row \in Lesson : lessons' = [lessons EXCEPT ![l] = row] /\ row.series = None /\ ~row.checked
  BY <1>1, <1>3, <1>4
<1>6. Calendar' /\ \A m \in Present : lessons'[m] # None
  BY <1>1, <1>5, CalendarReplace DEF Serial
<1>7. QED
  BY <1>1, <1>6, QuietStays DEF Serial, VanishStep

LEMMA SerialTutorDelete ==
    ASSUME ~Overlap, TypeOK, TypeOK', Serial, NEW l \in LessonIds, TutorDelete(l)
    PROVE  Serial' /\ VanishStep
<1>1. /\ Quiet /\ lessons' = Without({l})
      /\ UNCHANGED <<booked, series, blocked, now, archive, req>>
  BY DEF TutorDelete
<1>2. Calendar'
  BY <1>1, CalendarDelete DEF Serial, SameTemplate
<1>3. \A m \in Present : lessons'[m] = None => m = l
  BY <1>1, Deleted DEF Present
<1>4. QED
  BY <1>1, <1>2, <1>3, QuietStays DEF Serial, VanishStep

LEMMA SerialDeleteSeries ==
    ASSUME ~Overlap, TypeOK, TypeOK', Serial, NEW r \in SeriesIds, DeleteSeries(r)
    PROVE  Serial' /\ VanishStep
<1>1. /\ Quiet /\ lessons' = Without(OfSeries(r, series[r])) /\ series' = [series EXCEPT ![r] = None]
      /\ UNCHANGED <<booked, blocked, now, archive, req>>
  BY DEF DeleteSeries
<1>2. LinkedTo(r) \subseteq OfSeries(r, series[r])
  BY DEF OfSeries
<1>3. \A k \in SeriesIds : k # r => SameTemplate(k)
  BY <1>1 DEF SameTemplate, TypeOK
<1>4. Calendar'
  BY <1>1, <1>2, <1>3, CalendarDelete DEF Serial
<1>5. QED
  BY <1>1, <1>4, QuietStays DEF Serial, VanishStep

LEMMA SerialCreateForm ==
    ASSUME ~Overlap, TypeOK, TypeOK', Serial, NEW row \in Series, CreateSeries(row)
    PROVE  Serial' /\ VanishStep
<1>1. PICK r \in SeriesIds : series[r] = None /\ SaveSeries(r, row, Present)
  BY DEF CreateSeries
<1>2. Present \in SUBSET LessonIds
  BY DEF Present
<1>3. \A l \in Present : lessons[l].series # r
  BY <1>1, BookingAssumption DEF TypeOK, Present
<1>4. Calendar' /\ \A l \in Present : lessons'[l] # None
  BY <1>1, <1>2, <1>3, CalendarSaved DEF Serial
<1>5. Quiet /\ UNCHANGED req
  BY <1>1, <1>2, Saved
<1>6. QED
  BY <1>4, <1>5, QuietStays DEF Serial, VanishStep

LEMMA SerialUpdateForm ==
    ASSUME ~Overlap, TypeOK, TypeOK', Serial, NEW r \in SeriesIds, NEW row \in Series,
           UpdateSeries(r, row)
    PROVE  Serial' /\ VanishStep
<1> DEFINE kept == Present \ Upcoming(OfSeries(r, row))
<1>1. SaveSeries(r, row, kept)
  BY DEF UpdateSeries
<1>2. kept \in SUBSET LessonIds /\ kept \subseteq Present
  BY DEF Present
<1>3. \A l \in kept : lessons[l].series = r =>
         lessons[l].status # "planned" \/ ~(lessons[l].slot.day >= Today)
  BY DEF Upcoming, OfSeries, LinkedTo
<1> HIDE DEF kept
<1>4. Calendar'
  BY <1>1, <1>2, <1>3, CalendarSaved DEF Serial
<1>5. Quiet /\ UNCHANGED req /\ series'[r] = row
  BY <1>1, <1>2, Saved DEF TypeOK
<1>6. series'[r] # None /\ UpdateSeries(r, series'[r])
  BY <1>5, SeriesRow
<1>7. QED
  BY <1>4, <1>5, <1>6, QuietStays DEF Serial, VanishStep

\* the lessons stay as they are
LEMMA SerialAround ==
    ASSUME ~Overlap, TypeOK, TypeOK', Serial,
           \/ \E r \in SeriesIds, active \in BOOLEAN : Activate(r, active)
           \/ \E s \in Slots : Block(s)
           \/ Tick
    PROVE  Serial' /\ VanishStep
<1>1. /\ Quiet /\ UNCHANGED <<lessons, booked, archive, req>>
      /\ UNCHANGED now \/ now' = now + 1
  BY DEF Activate, Block, Tick
<1>2. ASSUME NEW k \in SeriesIds, series[k] # None PROVE SameTemplate(k)
  <2>1. CASE UNCHANGED series
    BY <2>1 DEF SameTemplate
  <2>2. ASSUME NEW r \in SeriesIds, NEW active \in BOOLEAN, Activate(r, active)
        PROVE  SameTemplate(k)
    <3>1. series[k] \in Series /\ series' = [series EXCEPT ![r].active = active]
      BY <1>2, <2>2 DEF TypeOK, Activate
    <3>2. QED
      BY <3>1 DEF SameTemplate, TypeOK, Series
  <2>3. QED
    BY <2>1, <2>2 DEF Block, Tick
<1>3. Calendar'
  BY <1>1, <1>2, CalendarKept DEF Serial
<1>4. QED
  BY <1>1, <1>3, QuietStays DEF Serial, VanishStep, Present

LEMMA SerialStatus ==
    ASSUME ~Overlap, TypeOK, TypeOK', Serial, UpdateStatus
    PROVE  Serial' /\ VanishStep
<1>1. Quiet /\ UNCHANGED req
  BY DEF UpdateStatus
<1>2. Calendar' /\ \A l \in Present : lessons'[l] # None
  BY CalendarStatus DEF Serial
<1>3. QED
  BY <1>1, <1>2, QuietStays DEF Serial, VanishStep

LEMMA SerialInit == Init => SerialInv
<1> SUFFICES ASSUME Init PROVE SerialInv
  OBVIOUS
<1>1. \A l \in LessonIds : lessons[l] = None /\ archive[l] = 0
  BY DEF Init
<1>2. NoClash /\ FollowsTemplate /\ Gone
  BY <1>1 DEF NoClash, FollowsTemplate, Gone, Upcoming, LinkedTo, Present
<1>3. QED
  BY <1>2, TypesInit, HandsInit DEF SerialInv

LEMMA SerialStep ==
    ASSUME ~Overlap, TypeOK, TypeOK', Serial, Next
    PROVE  Serial' /\ VanishStep
<1>1. ASSUME NEW q \in Requests, Portal(q) PROVE Serial' /\ VanishStep
  <2>1. ASSUME \E c \in Contracts, s \in Slots : BookBegin(q, c, s) PROVE Serial' /\ VanishStep
    BY <2>1, SerialBookBegin
  <2>2. ASSUME \E l \in LessonIds : CancelBegin(q, l) PROVE Serial' /\ VanishStep
    BY <2>2, SerialCancelBegin
  <2>3. ASSUME \E l \in LessonIds, s \in Slots : MoveBegin(q, l, s) PROVE Serial' /\ VanishStep
    BY <2>3, SerialMoveBegin
  <2>4. ASSUME \E row \in {a \in Rows : a.active}, by \in {"family", "form"} : SeriesCreate(q, row, by)
        PROVE  Serial' /\ VanishStep
    BY <2>4, SerialSeriesCreate DEF Rows
  <2>5. ASSUME \E r \in SeriesIds : Generate(q, r) PROVE Serial' /\ VanishStep
    BY <2>5, SerialGenerate
  <2>6. ASSUME \E r \in SeriesIds : EndBegin(q, r) PROVE Serial' /\ VanishStep
    BY <2>6, SerialEndBegin
  <2>7. QED
    BY <1>1, <2>1, <2>2, <2>3, <2>4, <2>5, <2>6, SerialBookCreate, SerialCancelCommit,
       SerialMoveSave, SerialSeriesDay, SerialSeriesDone, SerialEndCommit DEF Portal
<1>2. ASSUME Tutor PROVE Serial' /\ VanishStep
  <2>1. ASSUME \E c \in Contracts, s \in Slots : TutorBook(c, s) PROVE Serial' /\ VanishStep
    BY <2>1, SerialTutorBook
  <2>2. ASSUME \E l \in LessonIds, s \in Slots : TutorEdit(l, s) \/ TutorReschedule(l, s)
        PROVE  Serial' /\ VanishStep
    BY <2>2, SerialTutorMoves
  <2>3. ASSUME \E l \in LessonIds : TutorDelete(l) PROVE Serial' /\ VanishStep
    BY <2>3, SerialTutorDelete
  <2>4. ASSUME \E r \in SeriesIds : DeleteSeries(r) PROVE Serial' /\ VanishStep
    BY <2>4, SerialDeleteSeries
  <2>5. ASSUME \E row \in Rows : CreateSeries(row) PROVE Serial' /\ VanishStep
    BY <2>5, SerialCreateForm DEF Rows
  <2>6. ASSUME \E r \in SeriesIds, row \in Rows : UpdateSeries(r, row) PROVE Serial' /\ VanishStep
    BY <2>6, SerialUpdateForm DEF Rows
  <2>7. QED
    BY <1>2, <2>1, <2>2, <2>3, <2>4, <2>5, <2>6, SerialAround DEF Tutor
<1>3. QED
  BY <1>1, <1>2, SerialAround, SerialStatus DEF Next

LEMMA SerialStutter ==
    ASSUME Serial, UNCHANGED vars
    PROVE  Serial'
<1>1. UNCHANGED <<lessons, booked, series, blocked, now, archive, req>>
  BY DEF vars
<1>2. Sole'
  BY <1>1 DEF Serial, Sole, Idle
<1>3. Hands'
  BY <1>1 DEF Serial, Hands, Hand, HandBook, HandCancel, HandMove, HandSeries, HandEnd, Is, Idle,
     Busy, Exists, Made, Passed, Upcoming, LinkedTo, Present, Today
<1>4. NoClash' /\ Gone' /\ FollowsTemplate'
  BY <1>1 DEF Serial, Calendar, NoClash, Gone, FollowsTemplate, Upcoming, LinkedTo, Present, Today
<1>5. QED
  BY <1>2, <1>3, <1>4 DEF Serial, Calendar

LEMMA SerialNext ==
    ASSUME ~Overlap, SerialInv, [Next]_vars
    PROVE  SerialInv' /\ (Next => VanishStep)
<1>1. TypeInv /\ Serial
  BY SerialParts
<1>2. TypeInv'
  BY <1>1, TypesNext
<1>3. TypeOK /\ TypeOK'
  BY <1>1, <1>2 DEF TypeInv
<1>4. Serial' /\ (Next => VanishStep)
  BY <1>1, <1>3, SerialStep, SerialStutter
<1>5. TypeInv' /\ Serial' => SerialInv'
  BY DEF SerialInv, Serial, Calendar
<1>6. QED
  BY <1>2, <1>4, <1>5

(* With one request after the other, two lessons too near each other are   *)
(* in the calendar only if the tutor put one of them there by hand: what   *)
(* BusyCalendar found free is free when the lesson is written, and the     *)
(* lessons of a series do not hinder each other.                           *)
THEOREM NeverClash == ASSUME ~Overlap PROVE Spec => []NoClash
<1>1. SerialInv /\ [Next]_vars => SerialInv'
  BY SerialNext
<1>2. SerialInv => NoClash
  BY DEF SerialInv
<1>3. QED
  BY SerialInit, <1>1, <1>2, PTL DEF Spec

(* With one request after the other, the archive tells the truth: a lesson *)
(* is in it once, and is gone.                                             *)
THEOREM ArchiveTrue == ASSUME ~Overlap PROVE Spec => []ArchivedIsGone
<1>1. SerialInv /\ [Next]_vars => SerialInv'
  BY SerialNext
<1>2. SerialInv => ArchivedIsGone
  BY DEF SerialInv, Gone, ArchivedIsGone
<1>3. QED
  BY SerialInit, <1>1, <1>2, PTL DEF Spec

(* With one request after the other, a planned lesson of a series that is  *)
(* still to come is at the time and on a weekday of its series.            *)
THEOREM TemplateHolds == ASSUME ~Overlap PROVE Spec => []FollowsTemplate
<1>1. SerialInv /\ [Next]_vars => SerialInv'
  BY SerialNext
<1>2. SerialInv => FollowsTemplate
  BY DEF SerialInv
<1>3. QED
  BY SerialInit, <1>1, <1>2, PTL DEF Spec

(* With one request after the other, no step but the tutor's own deletions *)
(* takes a lesson out of the calendar without an entry in the archive.     *)
THEOREM NeverVanishes == ASSUME ~Overlap PROVE Spec => NothingVanishes
<1>1. SerialInv /\ [Next]_vars => SerialInv'
  BY SerialNext
<1>2. SerialInv /\ [Next]_vars => [VanishStep]_vars
  BY SerialNext
<1>3. QED
  BY SerialInit, <1>1, <1>2, PTL DEF Spec, NothingVanishes, VanishStep
-----------------------------------------------------------------------------
(* What becomes of the days of a series.                                   *)
FreeDayStep ==
    \A q \in Requests : Is(q, "series") /\ req'[q] = None =>
          LET row == req[q].row
              there == {d \in row.days : Exists(row.contract, SlotOn(row, d))}
          IN /\ \A d \in row.days \ there : SlotOn(row, d) \in req[q].taken
             /\ series'[req[q].id] # None <=> there # {} \/ req[q].by # "family"

\* only the last step of a series request ends it
LEMMA OnlyDone ==
    ASSUME TypeOK, Sole, Next, NEW p \in Requests, Is(p, "series"), req'[p] = None
    PROVE  SeriesDone(p)
<1>1. ASSUME NEW q \in Requests, NEW r \in Request, Begin(q, r) PROVE FALSE
  <2>1. Others(q) /\ req'[q] # None
    BY <1>1, Began DEF Idle
  <2>2. QED
    BY <2>1 DEF Others, Is, Idle
<1>2. ASSUME NEW q \in Requests, NEW r \in SeriesIds, NEW row \in Series,
             NEW by \in {"family", "tutor", "form"}, SeriesBegin(q, r, row, by)
      PROVE  FALSE
  <2>1. Others(q) /\ req'[q] # None
    BY <1>2, SeriesBegan DEF Idle
  <2>2. QED
    BY <2>1 DEF Others, Is, Idle
<1>3. ASSUME UNCHANGED req PROVE FALSE
  BY <1>3 DEF Is, Idle
<1>4. ASSUME NEW q \in Requests, Portal(q) PROVE SeriesDone(p)
  <2>1. ASSUME \E c \in Contracts, s \in Slots : BookBegin(q, c, s) PROVE FALSE
    <3>1. PICK c \in Contracts, s \in Slots : BookBegin(q, c, s)
      BY <2>1
    <3>2. [op |-> "book", contract |-> c, slot |-> s] \in Request
      BY DEF Request
    <3>3. QED
      BY <1>1, <3>1, <3>2 DEF BookBegin
  <2>2. ASSUME \E l \in LessonIds : CancelBegin(q, l) PROVE FALSE
    <3>1. PICK l \in LessonIds : CancelBegin(q, l)
      BY <2>2
    <3>2. [op |-> "cancel", id |-> l] \in Request
      BY DEF Request
    <3>3. QED
      BY <1>1, <3>1, <3>2 DEF CancelBegin
  <2>3. ASSUME \E l \in LessonIds, s \in Slots : MoveBegin(q, l, s) PROVE FALSE
    <3>1. PICK l \in LessonIds, s \in Slots : MoveBegin(q, l, s)
      BY <2>3
    <3>2. lessons[l] \in Lesson
      BY <3>1 DEF MoveBegin, TypeOK
    <3>3. [op |-> "move", id |-> l, row |-> lessons[l], slot |-> s] \in Request
      BY <3>2 DEF Request
    <3>4. QED
      BY <1>1, <3>1, <3>3 DEF MoveBegin
  <2>4. ASSUME \E r \in SeriesIds : EndBegin(q, r) PROVE FALSE
    <3>1. PICK r \in SeriesIds : EndBegin(q, r)
      BY <2>4
    <3>2. series[r] \in Series /\ Upcoming(LinkedTo(r)) \subseteq LessonIds
      BY <3>1 DEF EndBegin, TypeOK, Upcoming, LinkedTo, Present
    <3>3. [op |-> "end", id |-> r, row |-> series[r], dropped |-> Upcoming(LinkedTo(r))] \in Request
      BY <3>2 DEF Request
    <3>4. QED
      BY <1>1, <3>1, <3>3 DEF EndBegin
  <2>5. ASSUME \E row \in {a \in Rows : a.active}, by \in {"family", "form"} : SeriesCreate(q, row, by)
        PROVE  FALSE
    BY <1>2, <2>5 DEF SeriesCreate, Rows
  <2>6. ASSUME \E r \in SeriesIds : Generate(q, r) PROVE FALSE
    <3>1. PICK r \in SeriesIds : Generate(q, r)
      BY <2>6
    <3>2. series[r] \in Series /\ SeriesBegin(q, r, series[r], "tutor")
      BY <3>1 DEF Generate, TypeOK
    <3>3. QED
      BY <1>2, <3>2
  <2>7. ASSUME BookCreate(q) \/ CancelCommit(q) \/ MoveSave(q) \/ EndCommit(q) PROVE FALSE
    <3>1. ~Idle(q) /\ req[q].op # "series" /\ End(q)
      BY <2>7 DEF BookCreate, CancelCommit, MoveSave, EndCommit, Is
    <3>2. p # q /\ Others(q)
      BY <3>1, Ended DEF Is
    <3>3. QED
      BY <3>1, <3>2 DEF Sole, Is
  <2>8. ASSUME SeriesDay(q) PROVE FALSE
    <3>1. Is(q, "series") /\ ~Idle(q)' /\ Others(q)
      BY <2>8, DaySteps DEF DayDone
    <3>2. QED
      BY <3>1 DEF Others, Is, Idle
  <2>9. ASSUME SeriesDone(q) PROVE p = q
    BY <2>9 DEF SeriesDone, Is, Sole
  <2>10. QED
    BY <1>4, <2>1, <2>2, <2>3, <2>4, <2>5, <2>6, <2>7, <2>8, <2>9 DEF Portal
<1>5. ASSUME Tutor PROVE FALSE
  <2>1. ASSUME NEW r \in SeriesIds, NEW row \in Series, NEW kept \in SUBSET LessonIds,
               SaveSeries(r, row, kept)
        PROVE  FALSE
    BY <1>3, <2>1, Saved
  <2>2. ASSUME \/ \E row \in Rows : CreateSeries(row)
               \/ \E r \in SeriesIds, row \in Rows : UpdateSeries(r, row)
        PROVE  FALSE
    BY <2>1, <2>2 DEF CreateSeries, UpdateSeries, Present, Rows
  <2>3. QED
    BY <1>3, <1>5, <2>2 DEF Tutor, TutorBook, TutorEdit, TutorReschedule, TutorDelete, DeleteSeries,
       Activate, Block
<1>6. QED
  BY <1>3, <1>4, <1>5 DEF Next, Tick, UpdateStatus

LEMMA DoneLeaves ==
    ASSUME TypeOK, Sole, Hands, NEW q \in Requests, SeriesDone(q)
    PROVE  LET row == req[q].row
               there == {d \in row.days : Exists(row.contract, SlotOn(row, d))}
           IN /\ \A d \in row.days \ there : SlotOn(row, d) \in req[q].taken
              /\ series'[req[q].id] # None <=> there # {} \/ req[q].by # "family"
<1> DEFINE row == req[q].row
           k == req[q].id
           there == {d \in row.days : Exists(row.contract, SlotOn(row, d))}
<1>1. /\ Is(q, "series") /\ req[q].todo = {}
      /\ \/ /\ req[q].by = "family" /\ Nowhere(q)
            /\ series' = [series EXCEPT ![k] = None]
         \/ req[q].by = "form" /\ UNCHANGED series
         \/ /\ req[q].by = "tutor" \/ req[q].created # {} \/ (req[q].by = "family" /\ ~Nowhere(q))
            /\ UNCHANGED series
  BY DoneSteps, Zenon
<1>2. /\ k \in SeriesIds /\ row \in Series /\ series[k] = row /\ row # None
      /\ Passed(q) = row.days /\ Made(q) \subseteq row.days
      /\ \A d \in row.days : Exists(row.contract, SlotOn(row, d)) <=> d \in Made(q)
      /\ \A d \in row.days : d \in Made(q) \/ SlotOn(row, d) \in req[q].taken
  BY <1>1, SeriesHeld, RequestFields, SeriesRow DEF Passed
<1>3. there = Made(q)
  BY <1>2
<1>4. \A d \in row.days \ there : SlotOn(row, d) \in req[q].taken
  BY <1>2, <1>3
<1>5. Nowhere(q) <=> there = {}
  BY <1>3 DEF Nowhere, Made
<1> HIDE DEF there, row, k
<1>6. CASE req[q].by = "family" /\ Nowhere(q) /\ series' = [series EXCEPT ![k] = None]
  <2>1. series'[k] = None
    BY <1>2, <1>6 DEF TypeOK
  <2>2. QED
    BY <1>4, <1>5, <1>6, <2>1 DEF there, row, k
<1>7. CASE UNCHANGED series /\ (req[q].by # "family" \/ ~Nowhere(q))
  <2>1. series'[k] # None
    BY <1>2, <1>7
  <2>2. QED
    BY <1>4, <1>5, <1>7, <2>1 DEF there, row, k
<1>8. req[q].created # {} => ~Nowhere(q)
  BY DEF Nowhere
<1>9. QED
  BY <1>1, <1>6, <1>7, <1>8

(* With one request after the other, a series has a lesson on each of its  *)
(* days that was free, and a family's series stays only if there is one.   *)
THEOREM FreeDaysBooked == ASSUME ~Overlap PROVE Spec => EveryFreeDay
<1>1. SerialInv /\ [Next]_vars => SerialInv'
  BY SerialNext
<1>2. SerialInv /\ [Next]_vars => [FreeDayStep]_vars
  BY OnlyDone, DoneLeaves DEF SerialInv, TypeInv, FreeDayStep
<1>3. QED
  BY SerialInit, <1>1, <1>2, PTL DEF Spec, EveryFreeDay, FreeDayStep
=============================================================================
