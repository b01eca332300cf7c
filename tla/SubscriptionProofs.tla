------------------------- MODULE SubscriptionProofs -------------------------
(* For any subscriptions, friends and workers and any number of events and  *)
(* faults: the types, that no month a friend brought is lost, and that the  *)
(* paid tier follows the subscription.                                      *)
EXTENDS Subscription, FiniteSetTheorems, TLAPS

(* A worker grants a month only for a friend whose subscription is known.   *)
KnownFriends ==
    \A w \in Workers :
        At(w, "save") /\ work[w].event.type = "paid" => work[w].event.friend \in linked

TypeInv == TypeOK /\ KnownFriends

(* What the fields of an event are.                                         *)
LEMMA EventFields ==
    ASSUME NEW x \in Event
    PROVE  /\ x.type \in {"completed", "deleted", "failed", "changed", "paid"}
           /\ x.type # "paid" => x.sub \in Subs
           /\ x.type = "changed" => x.status \in Running
           /\ x.type = "paid" => x.friend \in Friends
BY DEF Event

(* One event, or two, get the next numbers.                                 *)
LEMMA SendOne ==
    ASSUME TypeOK, NEW x, Send({x}), last < MaxEvents => x \in Event
    PROVE  events' \subseteq Event /\ last' \in 0..MaxEvents
<1>1. Cardinality({x}) = 1
  BY FS_Singleton
<1>2. QED
  BY <1>1, SubscriptionAssumption DEF Send, TypeOK

LEMMA SendTwo ==
    ASSUME TypeOK, NEW x, NEW y, x # y, Send({x, y}),
           last + 2 <= MaxEvents => x \in Event /\ y \in Event
    PROVE  events' \subseteq Event /\ last' \in 0..MaxEvents
<1>1. Cardinality({x, y}) = 2
  <2>1. IsFiniteSet({x}) /\ Cardinality({x}) = 1
    BY FS_Singleton
  <2>2. Cardinality({x} \cup {y}) = IF y \in {x} THEN Cardinality({x}) ELSE Cardinality({x}) + 1
    BY <2>1, FS_AddElement
  <2>3. {x, y} = {x} \cup {y}
    OBVIOUS
  <2>4. QED
    BY <2>1, <2>2, <2>3
<1>2. QED
  BY <1>1, SubscriptionAssumption DEF Send, TypeOK

(* The guards and assignments of what Stripe does.                          *)
LEMMA PayType ==
    ASSUME TypeOK, NEW s \in Subs, Pay(s)
    PROVE  TypeOK'
<1>1. PICK now \in Paying, a \in {last + 1, last + 2}, b \in {last + 1, last + 2} :
          /\ a # b
          /\ status' = [status EXCEPT ![s] = now]
          /\ Send({[id |-> a, type |-> "completed", sub |-> s],
                   [id |-> b, type |-> "changed", sub |-> s, status |-> now]})
  BY DEF Pay
<1> DEFINE x == [id |-> a, type |-> "completed", sub |-> s]
           y == [id |-> b, type |-> "changed", sub |-> s, status |-> now]
<1>2. last + 2 <= MaxEvents => x \in Event /\ y \in Event
  BY SubscriptionAssumption DEF TypeOK, Event, Paying, Running
<1>3. x # y
  <2>1. x.type # y.type
    OBVIOUS
  <2>2. QED
    BY <2>1
<1>4. events' \subseteq Event /\ last' \in 0..MaxEvents
  <2> HIDE DEF x, y
  <2>1. Send({x, y})
    BY <1>1 DEF x, y
  <2>2. QED
    BY <1>2, <1>3, <2>1, SendTwo
<1>5. status' \in [Subs -> Statuses]
  BY <1>1 DEF TypeOK, Statuses, Running
<1>6. mess' \subseteq {"overlap", "order", "doubled"}
  BY DEF Pay, TypeOK, Doubled
<1>7. QED
  BY <1>4, <1>5, <1>6 DEF Pay, TypeOK, reward

LEMMA ChangeType ==
    ASSUME TypeOK, NEW s \in Subs, NEW now \in Running, Change(s, now)
    PROVE  TypeOK'
<1> DEFINE x == [id |-> last + 1, type |-> "changed", sub |-> s, status |-> now]
           y == [id |-> last + 2, type |-> "failed", sub |-> s]
<1>1. last + 1 <= MaxEvents => x \in Event
  BY SubscriptionAssumption DEF TypeOK, Event
<1>2. last + 2 <= MaxEvents => y \in Event
  BY SubscriptionAssumption DEF TypeOK, Event
<1>3. x # y
  <2>1. x.type # y.type
    OBVIOUS
  <2>2. QED
    BY <2>1
<1>4. Send({x} \cup {z \in {y} : now = "past_due"})
  BY DEF Change
<1>5. events' \subseteq Event /\ last' \in 0..MaxEvents
  <2> HIDE DEF x, y
  <2>1. CASE now = "past_due"
    <3>1. {x} \cup {z \in {y} : now = "past_due"} = {x, y}
      BY <2>1
    <3>2. Send({x, y})
      BY <1>4, <3>1
    <3>3. last + 2 <= MaxEvents => x \in Event
      BY <1>1, SubscriptionAssumption DEF TypeOK
    <3>4. QED
      BY <1>2, <1>3, <3>2, <3>3, SendTwo
  <2>2. CASE now # "past_due"
    <3>1. {x} \cup {z \in {y} : now = "past_due"} = {x}
      BY <2>2
    <3>2. Send({x})
      BY <1>4, <3>1
    <3>3. last < MaxEvents => x \in Event
      BY <1>1, SubscriptionAssumption DEF TypeOK
    <3>4. QED
      BY <3>2, <3>3, SendOne
  <2>3. QED
    BY <2>1, <2>2
<1>6. status' \in [Subs -> Statuses]
  BY DEF Change, TypeOK, Statuses, Running
<1>7. QED
  BY <1>5, <1>6 DEF Change, TypeOK, reward

LEMMA UnsubscribeType ==
    ASSUME TypeOK, NEW s \in Subs, Unsubscribe(s)
    PROVE  TypeOK'
<1> DEFINE x == [id |-> last + 1, type |-> "deleted", sub |-> s]
<1>1. last < MaxEvents => x \in Event
  BY SubscriptionAssumption DEF TypeOK, Event
<1>2. events' \subseteq Event /\ last' \in 0..MaxEvents
  <2>1. Send({x})
    BY DEF Unsubscribe
  <2> HIDE DEF x
  <2>2. QED
    BY <1>1, <2>1, SendOne
<1>3. status' \in [Subs -> Statuses]
  BY DEF Unsubscribe, TypeOK, Statuses
<1>4. QED
  BY <1>2, <1>3 DEF Unsubscribe, TypeOK, reward

LEMMA FriendPaysType ==
    ASSUME TypeOK, NEW f \in Friends, FriendPays(f)
    PROVE  TypeOK'
<1> DEFINE x == [id |-> last + 1, type |-> "paid", friend |-> f]
<1>1. last < MaxEvents => x \in Event
  BY SubscriptionAssumption DEF TypeOK, Event
<1>2. events' \subseteq Event /\ last' \in 0..MaxEvents
  <2>1. Send({x})
    BY DEF FriendPays
  <2> HIDE DEF x
  <2>2. QED
    BY <1>1, <2>1, SendOne
<1>3. QED
  BY <1>2 DEF FriendPays, TypeOK, reward

LEMMA CheckoutType ==
    ASSUME TypeOK, NEW s \in Subs, Checkout(s)
    PROVE  TypeOK'
<1>1. status' \in [Subs -> Statuses]
  BY DEF Checkout, TypeOK, Statuses
<1>2. trial' \in [Subs -> BOOLEAN]
  BY DEF Checkout, TypeOK
<1>3. profile' \in Profile /\ (profile'.premium => profile'.sub # None /\ profile'.price)
  BY DEF Checkout, TypeOK, Profile
<1>4. QED
  BY <1>1, <1>2, <1>3 DEF Checkout, TypeOK, reward

LEMMA FriendLinkedType ==
    ASSUME TypeOK, NEW f \in Friends, FriendLinked(f)
    PROVE  TypeOK'
BY DEF FriendLinked, TypeOK, stripe

(* What Stripe and the people do does not touch what a worker holds.        *)
LEMMA OutsideType ==
    ASSUME TypeInv, work' = work, linked \subseteq linked', TypeOK'
    PROVE  TypeInv'
BY DEF TypeInv, KnownFriends, At

(* A worker takes an event.                                                 *)
LEMMA StartType ==
    ASSUME TypeInv, NEW w \in Workers, NEW x \in Event, NEW at \in {"save", "done"},
           NEW live \in Statuses \cup {None}, Start(w, x, at, live),
           at = "save" /\ x.type = "paid" => x.friend \in linked
    PROVE  TypeInv'
<1> DEFINE job == [event |-> x, at |-> at, live |-> live, months |-> 0, balance |-> 0]
<1>1. job \in Job
  BY DEF Job
<1>2. work' = [work EXCEPT ![w] = job]
  BY DEF Start
<1> HIDE DEF job
<1>3. work' \in [Workers -> Job \cup {None}]
  BY <1>1, <1>2 DEF TypeInv, TypeOK
<1>4. mess' \subseteq {"overlap", "order", "doubled"}
  BY DEF Start, TypeInv, TypeOK
<1>5. TypeOK'
  BY <1>3, <1>4 DEF Start, TypeInv, TypeOK, stripe, reward
<1>6. KnownFriends'
  <2> SUFFICES ASSUME NEW v \in Workers, At(v, "save")', work'[v].event.type = "paid"
               PROVE  work'[v].event.friend \in linked'
    BY DEF KnownFriends
  <2>1. linked' = linked
    BY DEF Start, reward
  <2>2. CASE v = w
    BY <1>2, <2>1, <2>2 DEF TypeInv, TypeOK, At, job
  <2>3. CASE v # w
    BY <1>2, <2>1, <2>3 DEF TypeInv, TypeOK, At, KnownFriends
  <2>4. QED
    BY <2>2, <2>3
<1>7. QED
  BY <1>5, <1>6 DEF TypeInv

LEMMA ReceiveType ==
    ASSUME TypeInv, NEW w \in Workers, NEW x \in events, Receive(w, x)
    PROVE  TypeInv'
<1>1. x \in Event
  BY DEF TypeInv, TypeOK
<1>2. CASE StartCompleted(w, x)
  <2>1. PICK live \in {status[x.sub], None} : Start(w, x, "save", live)
    BY <1>2 DEF StartCompleted
  <2>2. live \in Statuses \cup {None}
    BY <1>1, <1>2, EventFields DEF StartCompleted, TypeInv, TypeOK
  <2>3. x.type # "paid"
    BY <1>2 DEF StartCompleted
  <2>4. QED
    BY <1>1, <2>1, <2>2, <2>3, StartType
<1>3. CASE StartChanged(w, x)
  <2>1. x.status \in Statuses \cup {None} /\ x.type # "paid"
    BY <1>1, <1>3, EventFields DEF StartChanged, Statuses
  <2>2. QED
    BY <1>1, <1>3, <2>1, StartType DEF StartChanged
<1>4. CASE StartDeleted(w, x)
  BY <1>1, <1>4, StartType DEF StartDeleted
<1>5. CASE StartFailed(w, x)
  BY <1>1, <1>5, StartType DEF StartFailed
<1>6. CASE StartPaid(w, x)
  BY <1>1, <1>6, StartType DEF StartPaid, Due
<1>7. QED
  BY <1>2, <1>3, <1>4, <1>5, <1>6 DEF Receive

(* A worker goes on to another step with the same event.                    *)
LEMMA StepType ==
    ASSUME TypeInv, NEW w \in Workers, work[w] # None, linked' = linked,
           NEW job \in Job, job.at # "save", work' = [work EXCEPT ![w] = job]
    PROVE  work' \in [Workers -> Job \cup {None}] /\ KnownFriends'
<1>1. work' \in [Workers -> Job \cup {None}]
  BY DEF TypeInv, TypeOK
<1>2. ASSUME NEW v \in Workers, At(v, "save")', work'[v].event.type = "paid"
      PROVE  work'[v].event.friend \in linked'
  <2>1. v # w
    BY <1>2 DEF At, TypeInv, TypeOK
  <2>2. QED
    BY <1>2, <2>1 DEF At, TypeInv, TypeOK, KnownFriends
<1>3. QED
  BY <1>1, <1>2 DEF KnownFriends

LEMMA GoType ==
    ASSUME TypeInv, NEW w \in Workers, work[w] # None, linked' = linked,
           NEW at \in {"look", "modify", "reset", "done"}, Go(w, at)
    PROVE  work' \in [Workers -> Job \cup {None}] /\ KnownFriends'
<1> DEFINE job == [work[w] EXCEPT !.at = at]
<1>1. job \in Job /\ job.at # "save"
  BY DEF TypeInv, TypeOK, Job
<1>2. work' = [work EXCEPT ![w] = job]
  BY DEF Go
<1> HIDE DEF job
<1>3. QED
  BY <1>1, <1>2, StepType

(* The transactions of the handlers.                                        *)
SavedProfile(p) == p \in Profile /\ (p.premium => p.sub # None /\ p.price)

LEMMA SaveCompletedType ==
    ASSUME TypeInv, NEW w \in Workers, SaveCompleted(w), UNCHANGED <<stripe, balance, faults, mess>>
    PROVE  TypeInv'
<1> DEFINE s == work[w].event.sub
           live == work[w].live
<1>1. work[w] \in Job /\ work[w] # None /\ s \in Subs
  BY EventFields DEF SaveCompleted, Saving, At, TypeInv, TypeOK, Job
<1>2. SavedProfile(profile')
  <2>1. profile' = [profile EXCEPT !.sub = s,
                         !.trialUsed = @ \/ live = "trialing",
                         !.premium = IF live = None THEN @ ELSE live \in Paying /\ profile.price]
    BY DEF SaveCompleted
  <2>2. (IF live = None THEN profile.premium ELSE live \in Paying /\ profile.price) \in BOOLEAN
    BY DEF TypeInv, TypeOK, Profile
  <2>3. (profile.trialUsed \/ live = "trialing") \in BOOLEAN
    OBVIOUS
  <2> HIDE DEF s, live
  <2>4. profile' \in Profile
    BY <1>1, <2>1, <2>2, <2>3 DEF TypeInv, TypeOK, Profile
  <2>5. profile'.sub = s /\ s # None
    BY <1>1, <2>1, SubscriptionAssumption DEF TypeInv, TypeOK, Profile
  <2>6. profile'.premium => profile'.price
    BY <2>1 DEF TypeInv, TypeOK, Profile
  <2>7. QED
    BY <2>4, <2>5, <2>6 DEF SavedProfile
<1>3. work' \in [Workers -> Job \cup {None}] /\ KnownFriends'
  BY <1>1, GoType DEF SaveCompleted, reward
<1>4. QED
  BY <1>2, <1>3 DEF SaveCompleted, TypeInv, TypeOK, stripe, reward, SavedProfile

LEMMA SaveChangedType ==
    ASSUME TypeInv, NEW w \in Workers, SaveChanged(w), UNCHANGED <<stripe, balance, faults, mess>>
    PROVE  TypeInv'
<1>1. work[w] \in Job /\ work[w] # None /\ work[w].event.sub \in Subs
  BY EventFields DEF SaveChanged, Saving, At, TypeInv, TypeOK, Job
<1>2. SavedProfile(profile')
  <2>1. (work[w].live \in Paying) \in BOOLEAN
    OBVIOUS
  <2>2. QED
    BY <1>1, <2>1, SubscriptionAssumption DEF SaveChanged, TypeInv, TypeOK, Profile, SavedProfile
<1>3. work' \in [Workers -> Job \cup {None}] /\ KnownFriends'
  <2> DEFINE job == [work[w] EXCEPT !.at = IF profile.pending > 0 THEN "look" ELSE "done",
                                    !.months = profile.pending]
  <2>1. job \in Job /\ job.at # "save"
    BY <1>1 DEF Job, TypeInv, TypeOK, Profile
  <2>2. work' = [work EXCEPT ![w] = job]
    BY <1>1 DEF SaveChanged, TypeInv, TypeOK
  <2> HIDE DEF job
  <2>3. QED
    BY <1>1, <2>1, <2>2, StepType DEF SaveChanged, reward
<1>4. QED
  BY <1>2, <1>3 DEF SaveChanged, TypeInv, TypeOK, stripe, reward, SavedProfile

LEMMA SaveDeletedType ==
    ASSUME TypeInv, NEW w \in Workers, SaveDeleted(w) \/ SaveFailed(w),
           UNCHANGED <<stripe, balance, faults, mess>>
    PROVE  TypeInv'
<1>1. work[w] # None /\ Go(w, "done") /\ UNCHANGED reward
  BY DEF SaveDeleted, SaveFailed, Saving, At
<1>2. SavedProfile(profile')
  BY DEF SaveDeleted, SaveFailed, TypeInv, TypeOK, Profile, SavedProfile
<1>3. work' \in [Workers -> Job \cup {None}] /\ KnownFriends'
  BY <1>1, GoType DEF reward
<1>4. QED
  BY <1>1, <1>2, <1>3 DEF TypeInv, TypeOK, stripe, reward, SavedProfile

LEMMA SavePaidType ==
    ASSUME TypeInv, NEW w \in Workers, SavePaid(w), UNCHANGED <<stripe, balance, faults, mess>>
    PROVE  TypeInv'
<1> DEFINE f == work[w].event.friend
<1>1. work[w] \in Job /\ work[w] # None /\ f \in linked
  BY DEF SavePaid, Saving, At, TypeInv, TypeOK, KnownFriends
<1>2. CASE f \in granted /\ Go(w, "done") /\ UNCHANGED <<profile, reward>>
  <2>1. work' \in [Workers -> Job \cup {None}] /\ KnownFriends'
    BY <1>1, <1>2, GoType DEF reward
  <2>2. QED
    BY <1>2, <2>1 DEF TypeInv, TypeOK, stripe, reward
<1>3. CASE f \notin granted /\ ~(f \in granted)
  <2>1. /\ granted' = granted \cup {f} /\ earned' = earned + 1
        /\ profile' = [profile EXCEPT !.pending = @ + 1]
        /\ linked' = linked
    BY <1>3 DEF SavePaid
  <2>2. SavedProfile(profile')
    BY <2>1 DEF TypeInv, TypeOK, Profile, SavedProfile
  <2>3. work' \in [Workers -> Job \cup {None}] /\ KnownFriends'
    <3> DEFINE job == [work[w] EXCEPT !.at = IF profile.customer /\ profile.price THEN "look" ELSE "done",
                                      !.months = profile'.pending]
    <3>1. job \in Job /\ job.at # "save"
      BY <1>1, <2>2 DEF Job, SavedProfile, Profile
    <3>2. work' = [work EXCEPT ![w] = job]
      BY <1>1, <1>3 DEF SavePaid, TypeInv, TypeOK
    <3> HIDE DEF job
    <3>3. QED
      BY <1>1, <2>1, <3>1, <3>2, StepType
  <2>4. QED
    BY <1>1, <2>1, <2>2, <2>3 DEF TypeInv, TypeOK, stripe, SavedProfile
<1>4. QED
  BY <1>2, <1>3 DEF SavePaid

(* The three calls of the credit, the answer, and a worker that dies.       *)
LEMMA CreditType ==
    ASSUME TypeInv, NEW w \in Workers,
           LookUp(w) \/ Modify(w) \/ CallFails(w) \/ ResetPending(w)
    PROVE  TypeInv'
<1>1. work[w] # None /\ work[w] \in Job
  BY DEF LookUp, Modify, CallFails, ResetPending, At, TypeInv, TypeOK
<1>2. CASE LookUp(w)
  <2> DEFINE job == [work[w] EXCEPT !.at = "modify", !.balance = balance]
  <2>1. job \in Job /\ job.at # "save"
    BY <1>1 DEF Job, TypeInv, TypeOK
  <2>2. work' = [work EXCEPT ![w] = job]
    BY <1>1, <1>2 DEF LookUp, TypeInv, TypeOK
  <2> HIDE DEF job
  <2>3. work' \in [Workers -> Job \cup {None}] /\ KnownFriends'
    BY <1>1, <1>2, <2>1, <2>2, StepType DEF LookUp, reward
  <2>4. QED
    BY <1>2, <2>3 DEF LookUp, TypeInv, TypeOK, stripe, reward
<1>3. CASE Modify(w)
  <2>1. work' \in [Workers -> Job \cup {None}] /\ KnownFriends'
    BY <1>1, <1>3, GoType DEF Modify, reward
  <2>2. balance' \in Nat
    BY <1>1, <1>3 DEF Modify, Job
  <2>3. faults' \in 0..MaxFaults
    BY <1>3, SubscriptionAssumption DEF Modify, TypeInv, TypeOK
  <2>4. QED
    BY <1>3, <2>1, <2>2, <2>3 DEF Modify, TypeInv, TypeOK, stripe, reward
<1>4. CASE CallFails(w)
  <2>1. work' \in [Workers -> Job \cup {None}] /\ KnownFriends'
    BY <1>1, <1>4, GoType DEF CallFails, reward
  <2>2. QED
    BY <1>4, <2>1 DEF CallFails, TypeInv, TypeOK, stripe, reward
<1>5. CASE ResetPending(w)
  <2>1. work' \in [Workers -> Job \cup {None}] /\ KnownFriends'
    BY <1>1, <1>5, GoType DEF ResetPending, reward
  <2>2. SavedProfile(profile')
    BY <1>5 DEF ResetPending, TypeInv, TypeOK, Profile, SavedProfile
  <2>3. QED
    BY <1>5, <2>1, <2>2 DEF ResetPending, TypeInv, TypeOK, stripe, reward, SavedProfile
<1>6. QED
  BY <1>2, <1>3, <1>4, <1>5

LEMMA LeaveType ==
    ASSUME TypeInv, NEW w \in Workers, Finish(w) \/ Die(w)
    PROVE  TypeInv'
<1>1. work' = [work EXCEPT ![w] = None]
  BY DEF Finish, Die
<1>2. linked' = linked
  BY DEF Finish, Die, reward
<1>3. KnownFriends'
  BY <1>1, <1>2 DEF KnownFriends, At, TypeInv, TypeOK
<1>4. TypeOK'
  <2>1. work' \in [Workers -> Job \cup {None}]
    BY <1>1 DEF TypeInv, TypeOK
  <2>2. faults' \in 0..MaxFaults
    BY SubscriptionAssumption DEF Finish, Die, TypeInv, TypeOK
  <2>3. events' \subseteq Event
    BY DEF Finish, Die, TypeInv, TypeOK, stripe
  <2>4. UNCHANGED <<status, trial, balance, last, profile, linked, granted, earned, mess>>
    BY DEF Finish, Die, stripe, reward
  <2>5. QED
    BY <2>1, <2>2, <2>3, <2>4 DEF TypeInv, TypeOK
<1>5. QED
  BY <1>3, <1>4 DEF TypeInv

LEMMA InitType == Init => TypeInv
BY SubscriptionAssumption
   DEF Init, TypeInv, TypeOK, KnownFriends, At, Profile, Statuses

LEMMA NextType ==
    ASSUME TypeInv, [Next]_vars
    PROVE  TypeInv'
<1>1. ASSUME NEW s \in Subs, Checkout(s) \/ Pay(s) \/ Unsubscribe(s)
      PROVE  TypeInv'
  <2>1. TypeOK'
    BY <1>1, CheckoutType, PayType, UnsubscribeType DEF TypeInv
  <2>2. work' = work /\ linked' = linked
    BY <1>1 DEF Checkout, Pay, Unsubscribe, reward
  <2>3. QED
    BY <2>1, <2>2, OutsideType
<1>2. ASSUME NEW s \in Subs, NEW now \in Running, Change(s, now)
      PROVE  TypeInv'
  <2>1. TypeOK'
    BY <1>2, ChangeType DEF TypeInv
  <2>2. work' = work /\ linked' = linked
    BY <1>2 DEF Change, reward
  <2>3. QED
    BY <2>1, <2>2, OutsideType
<1>3. ASSUME NEW f \in Friends, FriendPays(f) \/ FriendLinked(f)
      PROVE  TypeInv'
  <2>1. TypeOK'
    BY <1>3, FriendPaysType, FriendLinkedType DEF TypeInv
  <2>2. work' = work /\ linked \subseteq linked'
    BY <1>3 DEF FriendPays, FriendLinked, reward
  <2>3. QED
    BY <2>1, <2>2, OutsideType
<1>4. ASSUME NEW w \in Workers, NEW x \in events, Receive(w, x)
      PROVE  TypeInv'
  BY <1>4, ReceiveType
<1>5. ASSUME NEW w \in Workers, Save(w)
      PROVE  TypeInv'
  <2>1. UNCHANGED <<stripe, balance, faults, mess>>
    BY <1>5 DEF Save
  <2>2. QED
    BY <1>5, <2>1, SaveCompletedType, SaveChangedType, SaveDeletedType, SavePaidType DEF Save
<1>6. ASSUME NEW w \in Workers,
             LookUp(w) \/ Modify(w) \/ CallFails(w) \/ ResetPending(w) \/ Finish(w) \/ Die(w)
      PROVE  TypeInv'
  BY <1>6, CreditType, LeaveType
<1>7. ASSUME UNCHANGED vars
      PROVE  TypeInv'
  BY <1>7 DEF vars, TypeInv, TypeOK, KnownFriends, At
<1>8. QED
  BY <1>1, <1>2, <1>3, <1>4, <1>5, <1>6, <1>7 DEF Next

(* The rows, events and jobs keep their types, and a paid tier always has a *)
(* subscription and a price (core/models.py UserProfile), for any           *)
(* constants.                                                               *)
THEOREM SubscriptionTypes == Spec => []TypeOK
<1>1. TypeInv => TypeOK
  BY DEF TypeInv
<1>2. Spec => []TypeInv
  BY InitType, NextType, PTL DEF Spec
<1>3. QED
  BY <1>1, <1>2, PTL
-----------------------------------------------------------------------------
(* One worker at most has an event in hand.                                 *)
Alone == \A v, w \in Workers : work[v] # None /\ work[w] # None => v = w

(* The months are credited, and still pending, while a worker has yet to    *)
(* reset them.                                                              *)
Credited == \E w \in Workers : At(w, "reset")

(* What is credited or pending makes up what was earned; and who is about   *)
(* to credit has the months and the balance as they are.                    *)
Kept ==
    /\ ~Credited => /\ balance + profile.pending >= earned
                    /\ faults = 0 => balance + profile.pending = earned
    /\ Credited => balance >= earned /\ (faults = 0 => balance = earned)
    /\ \A w \in Workers :
          /\ At(w, "look") \/ At(w, "modify") => work[w].months = profile.pending
          /\ At(w, "modify") => work[w].balance = balance

Earned == IsFiniteSet(granted) /\ earned = Cardinality(granted)

MonthsInv == Earned /\ ("overlap" \notin mess => Alone /\ Kept)

(* What the months are counted with are numbers.                            *)
LEMMA Numbers ==
    ASSUME TypeInv
    PROVE  /\ balance \in Nat /\ earned \in Nat /\ faults \in Nat
           /\ profile.pending \in Nat
           /\ \A w \in Workers : work[w] # None => work[w].months \in Nat /\ work[w].balance \in Nat
BY SubscriptionAssumption DEF TypeInv, TypeOK, Profile, Job

(* Steps that count nothing.                                                *)
LEMMA SteadyMonths ==
    ASSUME MonthsInv, UNCHANGED <<work, balance, granted, earned, faults>>,
           profile'.pending = profile.pending, mess \subseteq mess'
    PROVE  MonthsInv'
BY DEF MonthsInv, Earned, Alone, Kept, Credited, At

(* If one worker is alone, the others have nothing in hand after its step.  *)
LEMMA StaysAlone ==
    ASSUME TypeInv, Alone, NEW w \in Workers, work[w] # None, NEW job,
           work' = [work EXCEPT ![w] = job]
    PROVE  /\ Alone'
           /\ \A v \in Workers : v # w => work[v] = None /\ work'[v] = None
           /\ work'[w] = job
BY DEF TypeInv, TypeOK, Alone

LEMMA ReceiveMonths ==
    ASSUME TypeInv, MonthsInv, NEW w \in Workers, NEW x \in events, Receive(w, x)
    PROVE  MonthsInv'
<1>1. PICK at, live : at \in {"save", "done"} /\ Start(w, x, at, live)
  BY DEF Receive, StartCompleted, StartChanged, StartDeleted, StartFailed, StartPaid
<1> DEFINE job == [event |-> x, at |-> at, live |-> live, months |-> 0, balance |-> 0]
<1>2. /\ work' = [work EXCEPT ![w] = job]
      /\ UNCHANGED <<balance, profile, granted, earned, faults>>
  BY <1>1 DEF Start, reward
<1>3. ASSUME "overlap" \notin mess'
      PROVE  "overlap" \notin mess /\ \A v \in Workers : work[v] = None
  BY <1>1, <1>3 DEF Start
<1>4. job.at \in {"save", "done"}
  BY <1>1
<1> HIDE DEF job
<1>5. ASSUME "overlap" \notin mess'
      PROVE  Alone' /\ Kept'
  <2>1. /\ \A v \in Workers : v # w => work'[v] = None
        /\ work'[w] = job
    BY <1>2, <1>3, <1>5 DEF TypeInv, TypeOK
  <2>2. Alone'
    BY <2>1 DEF Alone
  <2>3. ~Credited /\ Kept
    BY <1>3, <1>5 DEF MonthsInv, Credited, At
  <2>4. \A v \in Workers : ~At(v, "look")' /\ ~At(v, "modify")' /\ ~At(v, "reset")'
    BY <1>4, <2>1 DEF At
  <2>5. QED
    BY <1>2, <2>2, <2>3, <2>4 DEF Kept, Credited
<1>6. QED
  BY <1>2, <1>5 DEF MonthsInv, Earned

(* The transaction of a handler that grants nothing.                        *)
LEMMA SavedMonths ==
    ASSUME TypeInv, MonthsInv, NEW w \in Workers, At(w, "save"), NEW job,
           work' = [work EXCEPT ![w] = job],
           job.at = "done" \/ (job.at = "look" /\ job.months = profile.pending),
           UNCHANGED <<balance, granted, earned, faults, mess>>,
           profile'.pending = profile.pending
    PROVE  MonthsInv'
<1>1. ASSUME "overlap" \notin mess
      PROVE  Alone' /\ Kept'
  <2>1. Alone /\ Kept /\ work[w] # None
    BY <1>1 DEF MonthsInv, At
  <2>2. /\ Alone'
        /\ \A v \in Workers : v # w => work[v] = None /\ work'[v] = None
        /\ work'[w] = job
    BY <2>1, StaysAlone
  <2>3. ~Credited /\ ~Credited'
    BY <2>2 DEF Credited, At
  <2>4. QED
    BY <2>1, <2>2, <2>3 DEF Kept, At
<1>2. QED
  BY <1>1 DEF MonthsInv, Earned

LEMMA SaveMonths ==
    ASSUME TypeInv, MonthsInv, NEW w \in Workers, Save(w)
    PROVE  MonthsInv'
<1>1. /\ UNCHANGED <<balance, faults, mess>>
      /\ work[w] # None /\ work[w] \in Job /\ At(w, "save")
  BY DEF Save, SaveCompleted, SaveChanged, SaveDeleted, SaveFailed, SavePaid, Saving, At, TypeInv, TypeOK
<1> DEFINE done == [work[w] EXCEPT !.at = "done"]
<1>2. done.at = "done"
  BY <1>1 DEF Job
<1>3. CASE SaveCompleted(w) \/ SaveDeleted(w) \/ SaveFailed(w)
  <2>1. work' = [work EXCEPT ![w] = done]
    BY <1>3 DEF SaveCompleted, SaveDeleted, SaveFailed, Go
  <2>2. profile'.pending = profile.pending /\ UNCHANGED reward
    BY <1>3 DEF SaveCompleted, SaveDeleted, SaveFailed, TypeInv, TypeOK, Profile
  <2> HIDE DEF done
  <2>3. QED
    BY <1>1, <1>2, <2>1, <2>2, SavedMonths DEF reward
<1>4. CASE SaveChanged(w)
  <2> DEFINE job == [work[w] EXCEPT !.at = IF profile.pending > 0 THEN "look" ELSE "done",
                                    !.months = profile.pending]
  <2>1. work' = [work EXCEPT ![w] = job]
    BY <1>4 DEF SaveChanged, TypeInv, TypeOK
  <2>2. job.at = "done" \/ (job.at = "look" /\ job.months = profile.pending)
    BY <1>1 DEF Job
  <2>3. profile'.pending = profile.pending /\ UNCHANGED reward
    BY <1>4 DEF SaveChanged, TypeInv, TypeOK, Profile
  <2> HIDE DEF job
  <2>4. QED
    BY <1>1, <2>1, <2>2, <2>3, SavedMonths DEF reward
<1>5. CASE SavePaid(w)
  <2> DEFINE f == work[w].event.friend
  <2>1. CASE f \in granted /\ Go(w, "done") /\ UNCHANGED <<profile, reward>>
    <3>1. work' = [work EXCEPT ![w] = done]
      BY <2>1 DEF Go
    <3> HIDE DEF done
    <3>2. QED
      BY <1>1, <1>2, <2>1, <3>1, SavedMonths DEF reward
  <2>2. CASE ~(f \in granted)
    <3> DEFINE job == [work[w] EXCEPT !.at = IF profile.customer /\ profile.price THEN "look" ELSE "done",
                                      !.months = profile'.pending]
    <3>1. /\ granted' = granted \cup {f} /\ earned' = earned + 1
          /\ profile' = [profile EXCEPT !.pending = @ + 1]
          /\ work' = [work EXCEPT ![w] = job]
      BY <1>5, <2>2 DEF SavePaid, TypeInv, TypeOK
    <3>2. profile'.pending = profile.pending + 1
      BY <3>1 DEF TypeInv, TypeOK, Profile
    <3>3. job.at = "done" \/ (job.at = "look" /\ job.months = profile'.pending)
      BY <1>1 DEF Job
    <3> HIDE DEF job, f
    <3>4. Earned'
      <4>1. Cardinality(granted') = Cardinality(granted) + 1 /\ IsFiniteSet(granted')
        BY <2>2, <3>1, FS_AddElement DEF MonthsInv, Earned
      <4>2. QED
        BY <3>1, <4>1 DEF MonthsInv, Earned
    <3>5. ASSUME "overlap" \notin mess
          PROVE  Alone' /\ Kept'
      <4>1. Alone /\ Kept
        BY <3>5 DEF MonthsInv
      <4>2. /\ Alone'
            /\ \A v \in Workers : v # w => work[v] = None /\ work'[v] = None
            /\ work'[w] = job
        BY <1>1, <3>1, <4>1, StaysAlone
      <4>3. ~Credited /\ ~Credited'
        BY <1>1, <3>3, <4>2 DEF Credited, At
      <4>4. /\ balance + profile'.pending >= earned'
            /\ faults = 0 => balance + profile'.pending = earned'
        BY <3>1, <3>2, <4>1, <4>3, Numbers DEF Kept
      <4>5. \A v \in Workers : /\ At(v, "look")' => work'[v].months = profile'.pending
                               /\ ~At(v, "modify")'
        BY <3>3, <4>2 DEF At
      <4>6. QED
        BY <1>1, <4>2, <4>3, <4>4, <4>5 DEF Kept
    <3>6. QED
      BY <1>1, <3>4, <3>5 DEF MonthsInv
  <2>3. QED
    BY <1>5, <2>1, <2>2 DEF SavePaid
<1>6. QED
  BY <1>3, <1>4, <1>5 DEF Save

LEMMA LookUpMonths ==
    ASSUME TypeInv, MonthsInv, NEW w \in Workers, LookUp(w)
    PROVE  MonthsInv'
<1> DEFINE job == [work[w] EXCEPT !.at = "modify", !.balance = balance]
<1>1. /\ work[w] # None /\ work[w] \in Job /\ At(w, "look")
      /\ work' = [work EXCEPT ![w] = job]
      /\ UNCHANGED <<balance, profile, granted, earned, faults, mess>>
  BY DEF LookUp, At, TypeInv, TypeOK, reward
<1>2. job.at = "modify" /\ job.balance = balance /\ job.months = work[w].months
  BY <1>1 DEF Job
<1> HIDE DEF job
<1>3. ASSUME "overlap" \notin mess
      PROVE  Alone' /\ Kept'
  <2>1. Alone /\ Kept
    BY <1>3 DEF MonthsInv
  <2>2. /\ Alone'
        /\ \A v \in Workers : v # w => work[v] = None /\ work'[v] = None
        /\ work'[w] = job
    BY <1>1, <2>1, StaysAlone
  <2>3. ~Credited /\ ~Credited'
    BY <1>1, <1>2, <2>2 DEF Credited, At
  <2>4. work[w].months = profile.pending
    BY <1>1, <2>1 DEF Kept
  <2>5. QED
    BY <1>1, <1>2, <2>1, <2>2, <2>3, <2>4 DEF Kept, At
<1>4. QED
  BY <1>1, <1>3 DEF MonthsInv, Earned

(* The balance gets the months; whoever hears of it resets them, and if     *)
(* nobody does, that was a fault.                                           *)
LEMMA ModifyMonths ==
    ASSUME TypeInv, MonthsInv, NEW w \in Workers, Modify(w)
    PROVE  MonthsInv'
<1>1. /\ work[w] # None /\ work[w] \in Job /\ At(w, "modify")
      /\ balance' = work[w].balance + work[w].months
      /\ UNCHANGED <<profile, granted, earned, mess>>
  BY DEF Modify, At, TypeInv, TypeOK, reward
<1>2. PICK at \in {"reset", "done"} : /\ Go(w, at)
                                      /\ at = "reset" => faults' = faults
                                      /\ at = "done" => faults' = faults + 1
  BY DEF Modify
<1> DEFINE job == [work[w] EXCEPT !.at = at]
<1>3. work' = [work EXCEPT ![w] = job] /\ job.at = at
  BY <1>1, <1>2 DEF Go, Job
<1> HIDE DEF job
<1>4. ASSUME "overlap" \notin mess
      PROVE  Alone' /\ Kept'
  <2>1. Alone /\ Kept
    BY <1>4 DEF MonthsInv
  <2>2. /\ Alone'
        /\ \A v \in Workers : v # w => work[v] = None /\ work'[v] = None
        /\ work'[w] = job
    BY <1>1, <1>3, <2>1, StaysAlone
  <2>3. ~Credited
    BY <1>1, <2>2 DEF Credited, At
  <2>4. work[w].months = profile.pending /\ work[w].balance = balance
    BY <1>1, <2>1 DEF Kept
  <2>5. /\ balance' >= earned'
        /\ faults = 0 => balance' = earned'
    BY <1>1, <2>1, <2>3, <2>4, Numbers DEF Kept
  <2>6. \A v \in Workers : ~At(v, "look")' /\ ~At(v, "modify")'
    BY <1>3, <2>2 DEF At
  <2>7. CASE at = "reset"
    <3>1. faults' = 0 => faults = 0
      BY <1>2, <2>7
    <3>2. job \in Job
      BY <1>1, <2>7 DEF job, Job
    <3>3. Credited'
      BY <1>3, <2>2, <2>7, <3>2, NoneAssumption DEF Credited, At
    <3>4. QED
      BY <2>2, <2>5, <2>6, <3>1, <3>3 DEF Kept
  <2>8. CASE at = "done"
    <3>1. faults' # 0
      BY <1>2, <2>8, Numbers
    <3>2. ~Credited'
      BY <1>3, <2>2, <2>8 DEF Credited, At
    <3>3. balance' + profile'.pending >= earned'
      BY <1>1, <2>4, <2>5, Numbers
    <3>4. QED
      BY <2>2, <2>6, <3>1, <3>2, <3>3 DEF Kept
  <2>9. QED
    BY <2>7, <2>8
<1>5. QED
  BY <1>1, <1>4 DEF MonthsInv, Earned

(* A credit that is given up, and the answer: nothing is counted.           *)
LEMMA QuietMonths ==
    ASSUME TypeInv, MonthsInv, NEW w \in Workers, CallFails(w) \/ Finish(w)
    PROVE  MonthsInv'
<1>1. /\ work[w] # None /\ work[w] \in Job /\ ~At(w, "reset")
      /\ UNCHANGED <<balance, profile, granted, earned, faults, mess>>
  BY DEF CallFails, Finish, At, TypeInv, TypeOK, reward
<1>2. PICK job : /\ work' = [work EXCEPT ![w] = job]
                 /\ job = None \/ job.at = "done"
  <2>1. CASE CallFails(w)
    <3> DEFINE done == [work[w] EXCEPT !.at = "done"]
    <3>1. done.at = "done"
      BY <1>1 DEF Job
    <3>2. work' = [work EXCEPT ![w] = done]
      BY <2>1 DEF CallFails, Go
    <3> HIDE DEF done
    <3>3. QED
      BY <3>1, <3>2
  <2>2. CASE Finish(w)
    BY <2>2 DEF Finish
  <2>3. QED
    BY <2>1, <2>2
<1>3. ASSUME "overlap" \notin mess
      PROVE  Alone' /\ Kept'
  <2>1. Alone /\ Kept
    BY <1>3 DEF MonthsInv
  <2>2. /\ Alone'
        /\ \A v \in Workers : v # w => work[v] = None /\ work'[v] = None
        /\ work'[w] = job
    BY <1>1, <1>2, <2>1, StaysAlone
  <2>3. ~Credited /\ ~Credited'
    BY <1>1, <1>2, <2>2 DEF Credited, At
  <2>4. \A v \in Workers : ~At(v, "look")' /\ ~At(v, "modify")'
    BY <1>2, <2>2 DEF At
  <2>5. QED
    BY <1>1, <2>1, <2>2, <2>3, <2>4 DEF Kept
<1>4. QED
  BY <1>1, <1>3 DEF MonthsInv, Earned

LEMMA ResetMonths ==
    ASSUME TypeInv, MonthsInv, NEW w \in Workers, ResetPending(w)
    PROVE  MonthsInv'
<1> DEFINE job == [work[w] EXCEPT !.at = "done"]
<1>1. /\ work[w] # None /\ work[w] \in Job /\ At(w, "reset")
      /\ work' = [work EXCEPT ![w] = job]
      /\ UNCHANGED <<balance, granted, earned, faults, mess>>
  BY DEF ResetPending, Go, At, TypeInv, TypeOK, reward
<1>2. job.at = "done"
  BY <1>1 DEF Job
<1>3. profile'.pending = 0
  BY DEF ResetPending, TypeInv, TypeOK, Profile
<1> HIDE DEF job
<1>4. ASSUME "overlap" \notin mess
      PROVE  Alone' /\ Kept'
  <2>1. Alone /\ Kept /\ Credited
    BY <1>1, <1>4 DEF MonthsInv, Credited
  <2>2. /\ Alone'
        /\ \A v \in Workers : v # w => work[v] = None /\ work'[v] = None
        /\ work'[w] = job
    BY <1>1, <2>1, StaysAlone
  <2>3. ~Credited'
    BY <1>2, <2>2 DEF Credited, At
  <2>4. \A v \in Workers : ~At(v, "look")' /\ ~At(v, "modify")'
    BY <1>2, <2>2 DEF At
  <2>5. balance + 0 >= earned /\ (faults = 0 => balance + 0 = earned)
    BY <2>1, Numbers DEF Kept
  <2>6. QED
    BY <1>1, <1>3, <2>2, <2>3, <2>4, <2>5 DEF Kept
<1>5. QED
  BY <1>1, <1>4 DEF MonthsInv, Earned

(* A worker that dies before the reset leaves the months pending, too.      *)
LEMMA DieMonths ==
    ASSUME TypeInv, MonthsInv, NEW w \in Workers, Die(w)
    PROVE  MonthsInv'
<1>1. /\ work[w] # None /\ work' = [work EXCEPT ![w] = None]
      /\ UNCHANGED <<balance, profile, granted, earned, mess>>
      /\ faults' = faults + 1
  BY DEF Die, reward
<1>2. faults' # 0
  BY <1>1, Numbers
<1>3. ASSUME "overlap" \notin mess
      PROVE  Alone' /\ Kept'
  <2>1. Alone /\ Kept
    BY <1>3 DEF MonthsInv
  <2>2. /\ Alone'
        /\ \A v \in Workers : work'[v] = None
    BY <1>1, <2>1, StaysAlone
  <2>3. ~Credited' /\ \A v \in Workers : ~At(v, "look")' /\ ~At(v, "modify")'
    BY <2>2 DEF Credited, At
  <2>4. balance + profile.pending >= earned
    BY <2>1, Numbers DEF Kept
  <2>5. QED
    BY <1>1, <1>2, <2>2, <2>3, <2>4 DEF Kept
<1>4. QED
  BY <1>1, <1>3 DEF MonthsInv, Earned

LEMMA InitMonths == Init => MonthsInv
<1> SUFFICES ASSUME Init PROVE MonthsInv
  OBVIOUS
<1>1. Earned
  BY FS_EmptySet DEF Init, Earned
<1>2. Alone /\ ~Credited /\ \A w \in Workers : ~At(w, "look") /\ ~At(w, "modify")
  BY DEF Init, Alone, Credited, At
<1>3. balance + profile.pending = earned /\ balance + profile.pending >= earned
  BY DEF Init
<1>4. QED
  BY <1>1, <1>2, <1>3 DEF MonthsInv, Kept

LEMMA NextMonths ==
    ASSUME TypeInv, MonthsInv, [Next]_vars
    PROVE  MonthsInv'
<1>1. ASSUME NEW s \in Subs, Checkout(s) \/ Pay(s) \/ Unsubscribe(s)
      PROVE  MonthsInv'
  <2>1. /\ UNCHANGED <<work, balance, granted, earned, faults>>
        /\ mess \subseteq mess'
    BY <1>1 DEF Checkout, Pay, Unsubscribe, reward
  <2>2. profile'.pending = profile.pending
    BY <1>1 DEF Checkout, Pay, Unsubscribe, TypeInv, TypeOK, Profile
  <2>3. QED
    BY <2>1, <2>2, SteadyMonths
<1>2. ASSUME NEW s \in Subs, NEW now \in Running, Change(s, now)
      PROVE  MonthsInv'
  BY <1>2, SteadyMonths DEF Change, reward
<1>3. ASSUME NEW f \in Friends, FriendPays(f) \/ FriendLinked(f)
      PROVE  MonthsInv'
  BY <1>3, SteadyMonths DEF FriendPays, FriendLinked, stripe, reward
<1>4. ASSUME NEW w \in Workers, NEW x \in events, Receive(w, x)
      PROVE  MonthsInv'
  BY <1>4, ReceiveMonths
<1>5. ASSUME NEW w \in Workers, Save(w)
      PROVE  MonthsInv'
  BY <1>5, SaveMonths
<1>6. ASSUME NEW w \in Workers,
             LookUp(w) \/ Modify(w) \/ CallFails(w) \/ ResetPending(w) \/ Finish(w) \/ Die(w)
      PROVE  MonthsInv'
  BY <1>6, LookUpMonths, ModifyMonths, QuietMonths, ResetMonths, DieMonths
<1>7. ASSUME UNCHANGED vars
      PROVE  MonthsInv'
  BY <1>7, SteadyMonths DEF vars
<1>8. QED
  BY <1>1, <1>2, <1>3, <1>4, <1>5, <1>6, <1>7 DEF Next

(* A friend brings one month under every interleaving of any number of      *)
(* workers, repetitions and deaths; and while events are handled one at a   *)
(* time, every month is credited or pending, exactly so unless a worker     *)
(* died or a reply was lost (core/referrals.py).                            *)
THEOREM MonthsNeverLost == Spec => []MonthsKept
<1>1. TypeInv /\ MonthsInv => MonthsKept
  <2> SUFFICES ASSUME TypeInv, MonthsInv PROVE MonthsKept
    OBVIOUS
  <2>1. Calm => ~Credited
    BY DEF Calm, Credited, At
  <2>2. QED
    BY <2>1 DEF MonthsInv, Earned, Kept, MonthsKept
<1>2. Init => TypeInv /\ MonthsInv
  BY InitType, InitMonths
<1>3. TypeInv /\ MonthsInv /\ [Next]_vars => TypeInv' /\ MonthsInv'
  BY NextType, NextMonths
<1>4. Spec => [](TypeInv /\ MonthsInv)
  BY <1>2, <1>3, PTL DEF Spec
<1>5. QED
  BY <1>1, <1>4, PTL
-----------------------------------------------------------------------------
(* How the profile follows the subscription.  What is pending of the news  *)
(* of subscriptions is a queue: it is handled in the order of its numbers, *)
(* and its last decisive event says how the subscription stands.           *)
IsRunning(s) == status[s] \in Running
News == {x \in events : x.type \in {"completed", "changed", "deleted"}}
Decisive == {x \in events : x.type \in {"changed", "deleted"}}

\* decisive events that are saved and not yet answered
Told == {x \in Decisive : \E w \in Workers : work[w] # None /\ work[w].event = x /\ work[w].at # "save"}

\* the profile as it should be
Right ==
    /\ \A s \in Subs : IsRunning(s) =>
          profile.sub = s /\ profile.price /\ (profile.premium <=> status[s] \in Paying)
    /\ profile.sub # None => IsRunning(profile.sub)

Numbered == /\ \A x, y \in events : x.id = y.id => x = y
            /\ \A x \in events : x.id <= last
OneRuns == \A s, t \in Subs : IsRunning(s) /\ IsRunning(t) => s = t

\* what is in hand is pending, and the next of the queue
Held(w) == work[w] # None =>
    /\ work[w].event \in events
    /\ work[w].event \in News => \A y \in News : work[w].event.id <= y.id
InHand == \A w \in Workers : Held(w)

\* the last decisive event says how the subscription stands
Newest == \A x \in Decisive : (\A y \in Decisive : y.id <= x.id) =>
    /\ x.type = "changed" => status[x.sub] = x.status
    /\ x.type = "deleted" => \A s \in Subs : ~IsRunning(s)

\* between the news of two subscriptions is the end of the first
EndOf(s, from, to) ==
    \E d \in News : d.type = "deleted" /\ d.sub = s /\ from <= d.id /\ d.id < to
Chain == \A x, y \in News : x.id < y.id /\ x.sub # y.sub => EndOf(x.sub, x.id, y.id)

\* a subscription there is news of runs, or its end is among the news
EndPending(s, from) == \E d \in News : d.type = "deleted" /\ d.sub = s /\ from <= d.id
Alive == \A x \in News : IsRunning(x.sub) \/ EndPending(x.sub, x.id)

\* the same of the subscription in the profile
Known == profile.sub # None =>
    /\ IsRunning(profile.sub) \/ EndPending(profile.sub, 0)
    /\ \A x \in News : x.sub # profile.sub => EndOf(profile.sub, 0, x.id)

\* what a worker has read is still so, unless there is news
Read(w) == work[w] # None =>
    LET x == work[w].event IN
    /\ x.type = "deleted" /\ work[w].at # "save" => profile.sub = None
    /\ x.type = "changed" => work[w].live = x.status
    /\ x.type = "completed" /\ work[w].at = "save" /\ work[w].live # None /\ Decisive = {} =>
          work[w].live = status[x.sub]
    /\ x.type = "failed" /\ work[w].at = "save" /\ Decisive = {} =>
          profile.sub = x.sub /\ status[x.sub] \notin Paying
AllRead == \A w \in Workers : Read(w)

Agrees == Decisive \subseteq Told => Right

Following == /\ OneRuns /\ Alone /\ InHand /\ Newest /\ Chain /\ Alive
             /\ Known /\ AllRead /\ Agrees
FollowInv == mess = {} => Numbered /\ Following

LEMMA NewsFields ==
    ASSUME TypeOK
    PROVE  /\ last \in Nat
           /\ Decisive \subseteq News /\ News \subseteq events
           /\ \A x \in events : x.id \in Nat /\ 1 <= x.id
           /\ \A x \in News : x.sub \in Subs
           /\ \A x \in Decisive : /\ x.type \in {"changed", "deleted"}
                                  /\ x.type = "changed" => x.status \in Running
           /\ \A x \in News \ Decisive : x.type = "completed"
           /\ \A x \in events \ News : x.type \in {"failed", "paid"}
BY SubscriptionAssumption DEF TypeOK, Event, News, Decisive

(* Stripe sends news of one subscription, the only one that runs.          *)
LEMMA NewsSent ==
    ASSUME TypeOK, TypeOK', Numbered, Following, NEW s \in Subs, NEW new, NEW top \in new,
           events' = events \cup new, UNCHANGED <<profile, work>>,
           \A x \in new : last < x.id /\ x.id <= last' /\ (x.type # "failed" => x.sub = s),
           \A x, y \in new : x.id = y.id => x = y,
           last <= last',
           \A x \in new : x.type \in {"changed", "deleted"} => x = top,
           \A t \in Subs \ {s} : ~IsRunning(t) /\ ~IsRunning(t)',
           \A x \in new : x.type \in {"completed", "changed", "deleted", "failed"},
           \/ top.type = "changed" /\ IsRunning(s)' /\ status'[s] = top.status
           \/ /\ top.type = "deleted" /\ ~IsRunning(s)'
              /\ \A x \in new : x.type # "completed"
    PROVE  Numbered' /\ Following'
<1>1. /\ last \in Nat /\ last' \in Nat
      /\ \A x \in events : x.id \in Nat /\ 1 <= x.id /\ x.id <= last
      /\ \A x \in new : x.id \in Nat /\ last < x.id
  BY NewsFields, SubscriptionAssumption DEF Numbered, TypeOK, Event
<1>2. /\ \A x \in News' : x \in News \/ (x \in new /\ x.sub = s)
      /\ \A x \in Decisive' : x \in Decisive \/ x = top
      /\ News \subseteq News' /\ Decisive \subseteq Decisive'
      /\ top \in Decisive' /\ top \in News' /\ top.sub = s /\ top \notin events
  BY <1>1 DEF News, Decisive
<1>3. Numbered'
  BY <1>1 DEF Numbered
<1>4. OneRuns'
  BY DEF OneRuns
<1>5. Alone'
  BY DEF Following, Alone
<1>6. InHand'
  <2> SUFFICES ASSUME NEW w \in Workers, work[w] # None
               PROVE  /\ work[w].event \in events'
                      /\ work[w].event \in News' => \A y \in News' : work[w].event.id <= y.id
    BY DEF InHand, Held
  <2>1. /\ work[w].event \in events
        /\ work[w].event \in News => \A y \in News : work[w].event.id <= y.id
    BY DEF Following, InHand, Held
  <2>2. work[w].event \in News' => work[w].event \in News
    BY <2>1 DEF News
  <2>3. \A y \in new : work[w].event.id <= y.id
    BY <1>1, <2>1
  <2>4. QED
    BY <1>2, <2>1, <2>2, <2>3
<1>7. Newest'
  <2> SUFFICES ASSUME NEW x \in Decisive', \A y \in Decisive' : y.id <= x.id
               PROVE  /\ x.type = "changed" => status'[x.sub] = x.status
                      /\ x.type = "deleted" => \A t \in Subs : ~IsRunning(t)'
    BY DEF Newest
  <2>1. x = top
    BY <1>1, <1>2, NewsFields
  <2>2. QED
    BY <1>2, <2>1
<1>8. \A t \in Subs : \A from, to : EndOf(t, from, to) => EndOf(t, from, to)'
  BY <1>2 DEF EndOf
<1>9. \A t \in Subs : \A from : EndPending(t, from) => EndPending(t, from)'
  BY <1>2 DEF EndPending
<1>10. \A x \in News, y \in new : x.sub # s => EndOf(x.sub, x.id, y.id)
  <2> TAKE x \in News, y \in new
  <2> HAVE x.sub # s
  <2>1. EndPending(x.sub, x.id)
    BY NewsFields DEF Following, Alive
  <2>2. PICK d \in News : d.type = "deleted" /\ d.sub = x.sub /\ x.id <= d.id
    BY <2>1 DEF EndPending
  <2>3. d.id < y.id
    BY <1>1, <2>2, NewsFields
  <2>4. QED
    BY <2>2, <2>3 DEF EndOf
<1>11. Chain'
  <2> SUFFICES ASSUME NEW x \in News', NEW y \in News', x.id < y.id, x.sub # y.sub
               PROVE  EndOf(x.sub, x.id, y.id)'
    BY DEF Chain
  <2>1. CASE x \in News /\ y \in News
    BY <1>8, <2>1, NewsFields DEF Following, Chain
  <2>2. CASE x \in News /\ y \in new
    BY <1>2, <1>8, <1>10, <2>2, NewsFields
  <2>3. CASE x \in new /\ y \in News
    BY <1>1, <2>3, NewsFields
  <2>4. QED
    BY <1>2, <2>1, <2>2, <2>3
<1>12. \A n \in Nat : n <= top.id => IsRunning(s)' \/ EndPending(s, n)'
  BY <1>2 DEF EndPending
<1>13. Alive'
  <2> SUFFICES ASSUME NEW x \in News' PROVE IsRunning(x.sub)' \/ EndPending(x.sub, x.id)'
    BY DEF Alive
  <2>1. CASE x.sub = s
    <3>1. CASE x \in News
      BY <1>1, <1>12, <2>1, <3>1, NewsFields
    <3>2. CASE x \in new
      <4>1. IsRunning(s)' \/ x = top
        BY <3>2 DEF News
      <4>2. QED
        BY <1>1, <1>12, <2>1, <4>1
    <3>3. QED
      BY <1>2, <3>1, <3>2
  <2>2. CASE x.sub # s
    <3>1. x \in News /\ x.sub \in Subs
      BY <1>2, <2>2, NewsFields
    <3>2. EndPending(x.sub, x.id)
      BY <2>2, <3>1 DEF Following, Alive
    <3>3. QED
      BY <1>9, <3>1, <3>2
  <2>3. QED
    BY <2>1, <2>2
<1>14. Known'
  <2> SUFFICES ASSUME profile.sub # None
               PROVE  /\ IsRunning(profile.sub)' \/ EndPending(profile.sub, 0)'
                      /\ \A x \in News' : x.sub # profile.sub => EndOf(profile.sub, 0, x.id)'
    BY DEF Known
  <2>1. profile.sub \in Subs
    BY DEF TypeOK, Profile
  <2>2. /\ IsRunning(profile.sub) \/ EndPending(profile.sub, 0)
        /\ \A x \in News : x.sub # profile.sub => EndOf(profile.sub, 0, x.id)
    BY DEF Following, Known
  <2>3. IsRunning(profile.sub)' \/ EndPending(profile.sub, 0)'
    <3>1. CASE profile.sub = s
      BY <1>1, <1>12, <3>1
    <3>2. CASE profile.sub # s
      BY <1>9, <2>1, <2>2, <3>2
    <3>3. QED
      BY <3>1, <3>2
  <2>4. ASSUME NEW x \in News', x.sub # profile.sub
        PROVE  EndOf(profile.sub, 0, x.id)'
    <3>1. CASE x \in News
      BY <1>8, <2>1, <2>2, <2>4, <3>1
    <3>2. CASE x \in new /\ x.sub = s
      <4>1. EndPending(profile.sub, 0)
        BY <2>1, <2>2, <2>4, <3>2
      <4>2. PICK d \in News : d.type = "deleted" /\ d.sub = profile.sub /\ 0 <= d.id
        BY <4>1 DEF EndPending
      <4>3. d.id < x.id /\ d \in News'
        BY <1>1, <1>2, <3>2, <4>2, NewsFields
      <4>4. QED
        BY <4>2, <4>3 DEF EndOf
    <3>3. QED
      BY <1>2, <2>4, <3>1, <3>2
  <2>5. QED
    BY <2>3, <2>4
<1>15. AllRead'
  BY <1>2 DEF Following, AllRead, Read
<1>16. Agrees'
  <2>1. top \notin Told'
    BY <1>2 DEF Following, InHand, Held, Told
  <2>2. QED
    BY <1>2, <2>1 DEF Agrees
<1>17. QED
  BY <1>3, <1>4, <1>5, <1>6, <1>7, <1>11, <1>13, <1>14, <1>15, <1>16 DEF Following

LEMMA TwoSent ==
    ASSUME last \in Nat, NEW x, NEW y, x # y, Send({x, y})
    PROVE  last' = last + 2 /\ events' = events \cup {x, y}
<1>1. IsFiniteSet({x}) /\ Cardinality({x}) = 1
  BY FS_Singleton
<1>2. Cardinality({x} \cup {y}) = IF y \in {x} THEN Cardinality({x}) ELSE Cardinality({x}) + 1
  BY <1>1, FS_AddElement
<1>3. {x, y} = {x} \cup {y}
  OBVIOUS
<1>4. QED
  BY <1>1, <1>2, <1>3 DEF Send

LEMMA OneSent ==
    ASSUME last \in Nat, NEW x, Send({x})
    PROVE  last' = last + 1 /\ events' = events \cup {x}
BY FS_Singleton DEF Send

LEMMA OthersRest ==
    ASSUME TypeOK, Following, NEW s \in Subs, IsRunning(s)
    PROVE  \A t \in Subs \ {s} : ~IsRunning(t)
BY DEF Following, OneRuns

LEMMA PayFollows ==
    ASSUME TypeOK, TypeOK', Numbered, Following, NEW s \in Subs, Pay(s), mess' = {}
    PROVE  Numbered' /\ Following'
<1>1. PICK now \in Paying, a \in {last + 1, last + 2}, b \in {last + 1, last + 2} :
          /\ a # b
          /\ status' = [status EXCEPT ![s] = now]
          /\ Send({[id |-> a, type |-> "completed", sub |-> s],
                   [id |-> b, type |-> "changed", sub |-> s, status |-> now]})
  BY DEF Pay
<1> DEFINE x == [id |-> a, type |-> "completed", sub |-> s]
           y == [id |-> b, type |-> "changed", sub |-> s, status |-> now]
<1>2. /\ x.id = a /\ x.type = "completed" /\ x.sub = s
      /\ y.id = b /\ y.type = "changed" /\ y.sub = s /\ y.status = now
  OBVIOUS
<1>3. UNCHANGED <<profile, work>> /\ Send({x, y})
  BY <1>1 DEF Pay
<1> HIDE DEF x, y
<1>4. last \in Nat /\ a \in Nat /\ b \in Nat
  BY <1>1, NewsFields
<1>5. last' = last + 2 /\ events' = events \cup {x, y}
  <2>1. x # y
    BY <1>2
  <2>2. QED
    BY <1>3, <1>4, <2>1, TwoSent
<1>6. now \in Running /\ status'[s] = now /\ \A t \in Subs \ {s} : status'[t] = status[t]
  BY <1>1 DEF TypeOK, Running
<1>7. \A t \in Subs \ {s} : ~IsRunning(t) /\ ~IsRunning(t)'
  <2>1. Doubled(s) = {}
    BY DEF Pay
  <2>2. QED
    BY <1>6, <2>1 DEF Doubled, IsRunning
<1> DEFINE new == {x, y}
<1>8. /\ \A z \in new : last < z.id /\ z.id <= last' /\ (z.type # "failed" => z.sub = s)
      /\ \A z, u \in new : z.id = u.id => z = u
      /\ \A z \in new : z.type \in {"changed", "deleted"} => z = y
      /\ \A z \in new : z.type \in {"completed", "changed", "deleted", "failed"}
      /\ last <= last' /\ y \in new /\ events' = events \cup new
  BY <1>1, <1>2, <1>4, <1>5
<1>9. y.type = "changed" /\ IsRunning(s)' /\ status'[s] = y.status
  BY <1>2, <1>6 DEF IsRunning
<1>10. UNCHANGED <<profile, work>>
  BY <1>3
<1> HIDE DEF new
<1>11. QED
  BY <1>7, <1>8, <1>9, <1>10, NewsSent

LEMMA ChangeFollows ==
    ASSUME TypeOK, TypeOK', Numbered, Following,
           NEW s \in Subs, NEW now \in Running, Change(s, now)
    PROVE  Numbered' /\ Following'
<1> DEFINE x == [id |-> last + 1, type |-> "changed", sub |-> s, status |-> now]
           y == [id |-> last + 2, type |-> "failed", sub |-> s]
<1>1. /\ x.id = last + 1 /\ x.type = "changed" /\ x.sub = s /\ x.status = now
      /\ y.id = last + 2 /\ y.type = "failed"
  OBVIOUS
<1>2. /\ UNCHANGED <<profile, work>> /\ Send({x} \cup {z \in {y} : now = "past_due"})
      /\ status' = [status EXCEPT ![s] = now] /\ IsRunning(s)
  BY DEF Change, IsRunning
<1> HIDE DEF x, y
<1>3. last \in Nat
  BY NewsFields
<1> DEFINE new == {x} \cup {z \in {y} : now = "past_due"}
<1>4. /\ x \in new /\ new \subseteq {x, y} /\ events' = events \cup new
      /\ last + 1 <= last' /\ (y \in new => last + 2 <= last') /\ last' \in Nat
  <2>1. x # y
    BY <1>1
  <2>2. CASE now = "past_due"
    <3>1. new = {x, y}
      BY <2>2
    <3>2. Send({x, y})
      BY <1>2, <3>1
    <3> HIDE DEF new
    <3>3. last' = last + 2 /\ events' = events \cup {x, y}
      BY <1>3, <2>1, <3>2, TwoSent
    <3>4. QED
      BY <1>3, <3>1, <3>3
  <2>3. CASE now # "past_due"
    <3>1. new = {x}
      BY <2>3
    <3>2. Send({x})
      BY <1>2, <3>1
    <3> HIDE DEF new
    <3>3. last' = last + 1 /\ events' = events \cup {x}
      BY <1>3, <3>2, OneSent
    <3>4. QED
      BY <1>3, <2>1, <3>1, <3>3
  <2>4. QED
    BY <2>2, <2>3
<1> HIDE DEF new
<1>5. status'[s] = now /\ \A t \in Subs \ {s} : status'[t] = status[t]
  BY <1>2 DEF TypeOK
<1>6. \A t \in Subs \ {s} : ~IsRunning(t) /\ ~IsRunning(t)'
  BY <1>2, <1>5, OthersRest DEF IsRunning
<1>7. /\ \A z \in new : last < z.id /\ z.id <= last' /\ (z.type # "failed" => z.sub = s)
      /\ \A z, u \in new : z.id = u.id => z = u
      /\ \A z \in new : z.type \in {"changed", "deleted"} => z = x
      /\ \A z \in new : z.type \in {"completed", "changed", "deleted", "failed"}
      /\ last <= last'
  BY <1>1, <1>3, <1>4
<1>8. x.type = "changed" /\ IsRunning(s)' /\ status'[s] = x.status
  BY <1>1, <1>5 DEF IsRunning
<1>9. UNCHANGED <<profile, work>>
  BY <1>2
<1>10. QED
  BY <1>4, <1>6, <1>7, <1>8, <1>9, NewsSent

LEMMA UnsubscribeFollows ==
    ASSUME TypeOK, TypeOK', Numbered, Following, NEW s \in Subs, Unsubscribe(s)
    PROVE  Numbered' /\ Following'
<1> DEFINE x == [id |-> last + 1, type |-> "deleted", sub |-> s]
<1>1. x.id = last + 1 /\ x.type = "deleted" /\ x.sub = s
  OBVIOUS
<1>2. /\ UNCHANGED <<profile, work>> /\ Send({x})
      /\ status' = [status EXCEPT ![s] = "canceled"] /\ IsRunning(s)
  BY DEF Unsubscribe, IsRunning
<1> HIDE DEF x
<1>3. last \in Nat /\ last' = last + 1 /\ events' = events \cup {x}
  BY <1>2, NewsFields, OneSent
<1>4. status'[s] = "canceled" /\ \A t \in Subs \ {s} : status'[t] = status[t]
  BY <1>2 DEF TypeOK
<1>5. ~IsRunning(s)' /\ \A t \in Subs \ {s} : ~IsRunning(t) /\ ~IsRunning(t)'
  BY <1>2, <1>4, OthersRest DEF IsRunning, Running, Paying
<1> DEFINE new == {x}
<1>6. /\ \A z \in new : last < z.id /\ z.id <= last' /\ (z.type # "failed" => z.sub = s)
      /\ \A z, u \in new : z.id = u.id => z = u
      /\ \A z \in new : z.type \in {"changed", "deleted"} => z = x
      /\ \A z \in new : z.type \in {"completed", "changed", "deleted", "failed"}
      /\ last <= last' /\ \A z \in new : z.type # "completed"
      /\ x \in new /\ events' = events \cup new
  BY <1>1, <1>3
<1>7. UNCHANGED <<profile, work>>
  BY <1>2
<1> HIDE DEF new
<1>8. QED
  BY <1>1, <1>5, <1>6, <1>7, NewsSent

(* Steps that leave the news, the profile and the jobs as they are.        *)
LEMMA StillFollows ==
    ASSUME TypeOK, Following, UNCHANGED work, News' = News, Decisive' = Decisive,
           events \subseteq events',
           \A t \in Subs : status'[t] = status[t] \/ (status[t] = "none" /\ status'[t] = "checkout"),
           profile'.sub = profile.sub, profile'.price = profile.price,
           profile'.premium = profile.premium
    PROVE  Following'
<1>1. \A t \in Subs : /\ IsRunning(t)' <=> IsRunning(t)
                      /\ status'[t] \in Paying <=> status[t] \in Paying
                      /\ IsRunning(t) => status'[t] = status[t]
  BY DEF IsRunning, Running, Paying
<1>2. \A x \in News : x.sub \in Subs
  BY NewsFields
<1>3. profile.sub # None => profile.sub \in Subs
  BY DEF TypeOK, Profile
<1>4. OneRuns' /\ Alone'
  BY <1>1 DEF Following, OneRuns, Alone
<1>5. InHand'
  BY DEF Following, InHand, Held
<1>6. Newest'
  <2> SUFFICES ASSUME NEW x \in Decisive, \A y \in Decisive : y.id <= x.id
               PROVE  /\ x.type = "changed" => status'[x.sub] = x.status
                      /\ x.type = "deleted" => \A t \in Subs : ~IsRunning(t)'
    BY DEF Newest
  <2>1. /\ x.type = "changed" => status[x.sub] = x.status
        /\ x.type = "deleted" => \A t \in Subs : ~IsRunning(t)
    BY DEF Following, Newest
  <2>2. x.sub \in Subs /\ (x.type = "changed" => x.status \in Running)
    BY NewsFields
  <2>3. QED
    BY <1>1, <2>1, <2>2 DEF IsRunning
<1>7. Chain'
  BY DEF Following, Chain, EndOf
<1>8. Alive'
  BY <1>1, <1>2 DEF Following, Alive, EndPending
<1>9. Known'
  BY <1>1, <1>3 DEF Following, Known, EndPending, EndOf
<1>10. AllRead'
  <2> SUFFICES ASSUME NEW w \in Workers, work[w] # None PROVE Read(w)'
    BY DEF AllRead, Read
  <2>1. work[w].event \in events /\ Read(w)
    BY DEF Following, InHand, Held, AllRead
  <2>2. ASSUME work[w].event.type = "completed", Decisive = {}
        PROVE  status'[work[w].event.sub] = status[work[w].event.sub]
    <3>1. work[w].event \in News
      BY <2>1, <2>2 DEF News
    <3>2. IsRunning(work[w].event.sub)
      BY <2>2, <3>1 DEF Following, Alive, EndPending, News, Decisive
    <3>3. QED
      BY <1>1, <1>2, <3>1, <3>2
  <2>3. work[w].event.type = "failed" => work[w].event.sub \in Subs
    BY <2>1, EventFields DEF TypeOK
  <2>4. QED
    BY <1>1, <2>1, <2>2, <2>3 DEF Read
<1>11. Agrees'
  <2>1. Told' = Told
    BY DEF Told
  <2>2. Right => Right'
    BY <1>1, <1>3 DEF Right
  <2>3. QED
    BY <2>1, <2>2 DEF Following, Agrees
<1>12. QED
  BY <1>4, <1>5, <1>6, <1>7, <1>8, <1>9, <1>10, <1>11 DEF Following

LEMMA OutsideFollows ==
    ASSUME TypeOK, TypeOK', Numbered, Following
    PROVE  /\ \A s \in Subs : Checkout(s) => Numbered' /\ Following'
           /\ \A f \in Friends : FriendPays(f) \/ FriendLinked(f) => Numbered' /\ Following'
<1>1. ASSUME NEW s \in Subs, Checkout(s)
      PROVE  Numbered' /\ Following'
  <2>1. /\ UNCHANGED <<work, events, last>>
        /\ \A t \in Subs : status'[t] = status[t] \/ (status[t] = "none" /\ status'[t] = "checkout")
        /\ profile'.sub = profile.sub /\ profile'.price = profile.price
        /\ profile'.premium = profile.premium
    BY <1>1 DEF Checkout, TypeOK, Profile
  <2>2. News' = News /\ Decisive' = Decisive /\ Numbered'
    BY <2>1 DEF News, Decisive, Numbered
  <2>3. QED
    BY <2>1, <2>2, StillFollows
<1>2. ASSUME NEW f \in Friends, FriendPays(f)
      PROVE  Numbered' /\ Following'
  <2> DEFINE x == [id |-> last + 1, type |-> "paid", friend |-> f]
  <2>1. x.id = last + 1 /\ x.type = "paid"
    OBVIOUS
  <2>2. Send({x}) /\ UNCHANGED <<status, profile, work>>
    BY <1>2 DEF FriendPays
  <2> HIDE DEF x
  <2>3. last \in Nat /\ last' = last + 1 /\ events' = events \cup {x}
    BY <2>2, NewsFields, OneSent
  <2>4. News' = News /\ Decisive' = Decisive /\ events \subseteq events'
    BY <2>1, <2>3 DEF News, Decisive
  <2>5. Numbered'
    BY <2>1, <2>3, NewsFields DEF Numbered
  <2>6. QED
    BY <2>2, <2>3, <2>4, <2>5, StillFollows
<1>3. ASSUME NEW f \in Friends, FriendLinked(f)
      PROVE  Numbered' /\ Following'
  <2>1. UNCHANGED <<status, profile, work, events, last>>
    BY <1>3 DEF FriendLinked, stripe
  <2>2. News' = News /\ Decisive' = Decisive /\ Numbered'
    BY <2>1 DEF News, Decisive, Numbered
  <2>3. QED
    BY <2>1, <2>2, StillFollows
<1>4. QED
  BY <1>1, <1>2, <1>3

(* A worker's step that leaves Stripe alone leaves the queue as it was.    *)
LEMMA QueueRests ==
    ASSUME TypeOK, Numbered, Following, NEW w \in Workers, NEW job, job # None,
           work' = [work EXCEPT ![w] = job], UNCHANGED <<status, events, last>>,
           \A v \in Workers : v # w => work[v] = None,
           job.event \in events,
           job.event \in News => \A y \in News : job.event.id <= y.id
    PROVE  /\ Numbered' /\ OneRuns' /\ Alone' /\ InHand' /\ Newest' /\ Chain' /\ Alive'
           /\ work'[w] = job /\ \A v \in Workers : v # w => work'[v] = None
           /\ News' = News /\ Decisive' = Decisive
           /\ Told' = {x \in Decisive : job.event = x /\ job.at # "save"}
<1>1. News' = News /\ Decisive' = Decisive
  BY DEF News, Decisive
<1>2. work'[w] = job /\ \A v \in Workers : v # w => work'[v] = None
  BY DEF TypeOK
<1>3. Numbered' /\ OneRuns' /\ Newest' /\ Chain' /\ Alive'
  BY <1>1 DEF Following, Numbered, OneRuns, IsRunning, Newest, Chain, Alive, EndOf, EndPending
<1>4. Alone' /\ InHand'
  BY <1>1, <1>2 DEF Alone, InHand, Held
<1>5. Told' = {x \in Decisive : job.event = x /\ job.at # "save"}
  BY <1>1, <1>2 DEF Told
<1>6. QED
  BY <1>1, <1>2, <1>3, <1>4, <1>5

(* It takes the next of the queue.                                         *)
LEMMA ReceiveFollows ==
    ASSUME TypeOK, Numbered, Following, NEW w \in Workers, NEW x \in events,
           Receive(w, x), mess' = {}
    PROVE  Numbered' /\ Following'
<1>1. PICK at \in {"save", "done"}, live \in Statuses \cup {None} :
        /\ Start(w, x, at, live)
        /\ x.type = "completed" => at = "save" /\ live \in {status[x.sub], None}
        /\ x.type = "changed" => at = "save" /\ live = x.status
        /\ x.type = "deleted" /\ at = "done" => ~Tracked(x)
        /\ x.type = "failed" /\ at = "save" => Tracked(x) /\ status[x.sub] \notin Paying
  <2>1. CASE StartCompleted(w, x)
    <3>1. status[x.sub] \in Statuses
      BY <2>1, EventFields DEF StartCompleted, TypeOK
    <3>2. QED
      BY <2>1, <3>1 DEF StartCompleted
  <2>2. CASE StartChanged(w, x)
    <3>1. x.status \in Statuses
      BY <2>2, EventFields DEF StartChanged, TypeOK, Statuses
    <3>2. QED
      BY <2>2, <3>1 DEF StartChanged
  <2>3. CASE StartDeleted(w, x)
    BY <2>3 DEF StartDeleted
  <2>4. CASE StartFailed(w, x)
    BY <2>4 DEF StartFailed
  <2>5. CASE StartPaid(w, x)
    BY <2>5 DEF StartPaid
  <2>6. QED
    BY <2>1, <2>2, <2>3, <2>4, <2>5 DEF Receive
<1> DEFINE job == [event |-> x, at |-> at, live |-> live, months |-> 0, balance |-> 0]
<1>2. job.event = x /\ job.at = at /\ job.live = live
  OBVIOUS
<1>3. job # None
  <2>1. job \in Job
    BY DEF TypeOK, Job
  <2>2. QED
    BY <2>1, NoneAssumption
<1>4. work' = [work EXCEPT ![w] = job] /\ UNCHANGED <<status, events, last, profile>>
  BY <1>1 DEF Start, stripe
<1>5. (\A v \in Workers : work[v] = None) /\ InOrder(x)
  BY <1>1 DEF Start
<1> HIDE DEF job
<1>6. x \in News => \A y \in News : x.id <= y.id
  BY <1>5 DEF InOrder, News
<1>7. /\ Numbered' /\ OneRuns' /\ Alone' /\ InHand' /\ Newest' /\ Chain' /\ Alive'
      /\ work'[w] = job /\ \A v \in Workers : v # w => work'[v] = None
      /\ News' = News /\ Decisive' = Decisive
      /\ Told' = {y \in Decisive : x = y /\ at # "save"}
  BY <1>2, <1>3, <1>4, <1>5, <1>6, QueueRests
<1>8. Known'
  BY <1>4, <1>7 DEF Following, Known, EndOf, EndPending, IsRunning
<1>9. x.type = "deleted" /\ at # "save" => profile.sub = None
  <2> SUFFICES ASSUME x.type = "deleted", at # "save", profile.sub # None PROVE FALSE
    OBVIOUS
  <2>1. x.sub # profile.sub /\ x \in News
    BY <1>1 DEF Tracked, News
  <2>2. PICK d \in News : d.id < x.id
    BY <2>1 DEF Following, Known, EndOf
  <2>3. QED
    BY <1>6, <2>1, <2>2, NewsFields
<1>10. AllRead'
  <2>1. Read(w)'
    BY <1>1, <1>2, <1>4, <1>7, <1>9 DEF Read, Tracked
  <2>2. QED
    BY <1>7, <2>1 DEF AllRead, Read
<1>11. Agrees'
  <2> SUFFICES ASSUME Decisive \subseteq Told' PROVE Right'
    BY <1>7 DEF Agrees
  <2>1. Right' <=> Right
    BY <1>4 DEF Right, IsRunning
  <2>2. CASE Decisive = {}
    BY <2>1, <2>2 DEF Following, Agrees
  <2>3. CASE Decisive # {}
    <3>1. Decisive = {x} /\ at # "save"
      BY <1>7, <2>3
    <3>2. x.type = "deleted"
      BY <1>1, <3>1, NewsFields
    <3>3. \A s \in Subs : ~IsRunning(s)
      BY <3>1, <3>2, NewsFields DEF Following, Newest
    <3>4. QED
      BY <1>9, <2>1, <3>1, <3>2, <3>3 DEF Right
  <2>4. QED
    BY <2>2, <2>3
<1>12. QED
  BY <1>7, <1>8, <1>10, <1>11 DEF Following

(* Which subscription there is in the profile once a piece of news is saved. *)
LEMMA SavedKnown ==
    ASSUME TypeOK, Numbered, Following, NEW x \in News, \A y \in News : x.id <= y.id
    PROVE  /\ IsRunning(x.sub) \/ EndPending(x.sub, 0)
           /\ \A y \in News : y.sub # x.sub => EndOf(x.sub, 0, y.id)
<1>1. /\ x.sub \in Subs /\ x.id \in Nat /\ x \in events
      /\ \A y \in News : y.id \in Nat /\ y \in events
  BY NewsFields
<1>2. IsRunning(x.sub) \/ EndPending(x.sub, 0)
  BY <1>1 DEF Following, Alive, EndPending
<1>3. ASSUME NEW y \in News, y.sub # x.sub
      PROVE  EndOf(x.sub, 0, y.id)
  <2>1. x.id # y.id
    BY <1>1, <1>3 DEF Numbered
  <2>2. x.id < y.id
    BY <1>1, <2>1
  <2>3. EndOf(x.sub, x.id, y.id)
    BY <1>3, <2>2 DEF Following, Chain
  <2>4. QED
    BY <1>1, <2>3 DEF EndOf
<1>4. QED
  BY <1>2, <1>3

(* A worker goes on with the event it holds: what is left to show.         *)
LEMMA JobFollows ==
    ASSUME TypeOK, Numbered, Following, NEW w \in Workers, work[w] # None, NEW job \in Job,
           job.event = work[w].event, job.at # "save", work' = [work EXCEPT ![w] = job],
           UNCHANGED <<status, events, last>>
    PROVE  /\ work[w].event \in Event
           /\ work[w].event \in News =>
                 /\ \A y \in News : work[w].event.id <= y.id
                 /\ IsRunning(work[w].event.sub) \/ EndPending(work[w].event.sub, 0)
                 /\ \A y \in News : y.sub # work[w].event.sub => EndOf(work[w].event.sub, 0, y.id)
           /\ Read(w)
           /\ /\ profile'.sub # None =>
                    /\ IsRunning(profile'.sub) \/ EndPending(profile'.sub, 0)
                    /\ \A y \in News : y.sub # profile'.sub => EndOf(profile'.sub, 0, y.id)
              /\ work[w].event.type = "deleted" => profile'.sub = None
              /\ work[w].event.type = "changed" => job.live = work[w].event.status
              /\ Decisive \subseteq {work[w].event} => Right'
              => Numbered' /\ Following'
<1> DEFINE x == work[w].event
<1>1. x \in events /\ (x \in News => \A y \in News : x.id <= y.id) /\ x \in Event /\ Read(w)
  BY DEF Following, InHand, Held, AllRead, TypeOK
<1>2. x \in News => /\ IsRunning(x.sub) \/ EndPending(x.sub, 0)
                    /\ \A y \in News : y.sub # x.sub => EndOf(x.sub, 0, y.id)
  BY <1>1, SavedKnown
<1>3. \A v \in Workers : v # w => work[v] = None
  BY DEF Following, Alone
<1>4. /\ Numbered' /\ OneRuns' /\ Alone' /\ InHand' /\ Newest' /\ Chain' /\ Alive'
      /\ work'[w] = job /\ \A v \in Workers : v # w => work'[v] = None
      /\ News' = News /\ Decisive' = Decisive
      /\ Told' = {y \in Decisive : job.event = y /\ job.at # "save"}
  BY <1>1, <1>3, NoneAssumption, QueueRests
<1>5. ASSUME profile'.sub # None =>
                /\ IsRunning(profile'.sub) \/ EndPending(profile'.sub, 0)
                /\ \A y \in News : y.sub # profile'.sub => EndOf(profile'.sub, 0, y.id),
             x.type = "deleted" => profile'.sub = None,
             x.type = "changed" => job.live = x.status,
             Decisive \subseteq {x} => Right'
      PROVE  Numbered' /\ Following'
  <2>1. Known'
    BY <1>4, <1>5 DEF Known, EndOf, EndPending, IsRunning
  <2>2. AllRead'
    BY <1>4, <1>5 DEF AllRead, Read
  <2>3. Agrees'
    BY <1>4, <1>5 DEF Agrees
  <2>4. QED
    BY <1>4, <2>1, <2>2, <2>3 DEF Following
<1>6. QED
  BY <1>1, <1>2, <1>5

(* The transactions of the handlers of a subscription's events.            *)
LEMMA SaveCompletedFollows ==
    ASSUME TypeOK, Numbered, Following, NEW w \in Workers, SaveCompleted(w),
           UNCHANGED <<status, events, last>>
    PROVE  Numbered' /\ Following'
<1> DEFINE x == work[w].event
           live == work[w].live
           job == [work[w] EXCEPT !.at = "done"]
<1>1. /\ work[w] # None /\ work[w] \in Job /\ x.type = "completed" /\ work[w].at = "save"
      /\ work' = [work EXCEPT ![w] = job]
  BY DEF SaveCompleted, Saving, At, Go, TypeOK
<1>2. job \in Job /\ job.event = x /\ job.at # "save"
  BY <1>1 DEF Job
<1>3. /\ profile'.sub = x.sub /\ profile'.price = profile.price
      /\ profile'.premium = IF live = None THEN profile.premium ELSE live \in Paying /\ profile.price
  BY DEF SaveCompleted, TypeOK, Profile
<1> HIDE DEF job
<1>4. /\ work[w].event \in Event
      /\ work[w].event \in News =>
            /\ \A y \in News : work[w].event.id <= y.id
            /\ IsRunning(work[w].event.sub) \/ EndPending(work[w].event.sub, 0)
            /\ \A y \in News : y.sub # work[w].event.sub => EndOf(work[w].event.sub, 0, y.id)
      /\ Read(w)
  BY <1>1, <1>2, JobFollows
<1>5. x \in News /\ x \notin Decisive /\ x.sub \in Subs
  BY <1>1, <1>4, EventFields DEF Following, InHand, Held, News, Decisive
<1>6. ASSUME Decisive = {}
      PROVE  Right'
  <2>1. Right
    BY <1>6 DEF Following, Agrees
  <2>2. IsRunning(x.sub)
    BY <1>4, <1>5, <1>6 DEF EndPending, News, Decisive
  <2>3. profile.sub = x.sub /\ profile.price /\ (profile.premium <=> status[x.sub] \in Paying)
    BY <1>5, <2>1, <2>2 DEF Right
  <2>4. live # None => live = status[x.sub]
    BY <1>1, <1>4, <1>6 DEF Read
  <2>5. profile'.premium <=> status[x.sub] \in Paying
    BY <1>3, <2>3, <2>4
  <2>6. \A s \in Subs : IsRunning(s) => s = x.sub
    BY <1>5, <2>2 DEF Following, OneRuns
  <2>7. QED
    BY <1>3, <2>2, <2>3, <2>5, <2>6 DEF Right, IsRunning
<1>7. /\ profile'.sub # None =>
            /\ IsRunning(profile'.sub) \/ EndPending(profile'.sub, 0)
            /\ \A y \in News : y.sub # profile'.sub => EndOf(profile'.sub, 0, y.id)
      /\ x.type = "deleted" => profile'.sub = None
      /\ x.type = "changed" => job.live = x.status
      /\ Decisive \subseteq {x} => Right'
  BY <1>1, <1>3, <1>4, <1>5, <1>6
<1>8. QED
  BY <1>1, <1>2, <1>7, JobFollows

LEMMA SaveChangedFollows ==
    ASSUME TypeOK, Numbered, Following, NEW w \in Workers, SaveChanged(w),
           UNCHANGED <<status, events, last>>
    PROVE  Numbered' /\ Following'
<1> DEFINE x == work[w].event
           job == [work[w] EXCEPT !.at = IF profile.pending > 0 THEN "look" ELSE "done",
                                  !.months = profile.pending]
<1>1. /\ work[w] # None /\ work[w] \in Job /\ x.type = "changed" /\ work[w].at = "save"
      /\ work' = [work EXCEPT ![w] = job]
  BY DEF SaveChanged, Saving, At, TypeOK
<1>2. job \in Job /\ job.event = x /\ job.at # "save" /\ job.live = work[w].live
  BY <1>1 DEF Job, TypeOK, Profile
<1>3. /\ profile'.sub = x.sub /\ profile'.price
      /\ profile'.premium <=> work[w].live \in Paying
  BY DEF SaveChanged, TypeOK, Profile
<1> HIDE DEF job
<1>4. /\ work[w].event \in Event
      /\ work[w].event \in News =>
            /\ \A y \in News : work[w].event.id <= y.id
            /\ IsRunning(work[w].event.sub) \/ EndPending(work[w].event.sub, 0)
            /\ \A y \in News : y.sub # work[w].event.sub => EndOf(work[w].event.sub, 0, y.id)
      /\ Read(w)
  BY <1>1, <1>2, JobFollows
<1>5. x \in News /\ x \in Decisive /\ x.sub \in Subs /\ x.status \in Running /\ x.id \in Nat
  BY <1>1, <1>4, EventFields, NewsFields DEF Following, InHand, Held, News, Decisive
<1>6. work[w].live = x.status
  BY <1>1, <1>4 DEF Read
<1>7. ASSUME Decisive \subseteq {x}
      PROVE  Right'
  <2>1. \A y \in Decisive : y.id <= x.id
    BY <1>5, <1>7
  <2>2. status[x.sub] = x.status
    BY <1>1, <1>5, <2>1 DEF Following, Newest
  <2>3. IsRunning(x.sub)
    BY <1>5, <2>2 DEF IsRunning
  <2>4. \A s \in Subs : IsRunning(s) => s = x.sub
    BY <1>5, <2>3 DEF Following, OneRuns
  <2>5. QED
    BY <1>3, <1>6, <2>2, <2>3, <2>4 DEF Right, IsRunning
<1>8. /\ profile'.sub # None =>
            /\ IsRunning(profile'.sub) \/ EndPending(profile'.sub, 0)
            /\ \A y \in News : y.sub # profile'.sub => EndOf(profile'.sub, 0, y.id)
      /\ x.type = "deleted" => profile'.sub = None
      /\ x.type = "changed" => job.live = x.status
      /\ Decisive \subseteq {x} => Right'
  BY <1>1, <1>2, <1>3, <1>4, <1>5, <1>6, <1>7
<1>9. QED
  BY <1>1, <1>2, <1>8, JobFollows

LEMMA SaveDeletedFollows ==
    ASSUME TypeOK, Numbered, Following, NEW w \in Workers, SaveDeleted(w),
           UNCHANGED <<status, events, last>>
    PROVE  Numbered' /\ Following'
<1> DEFINE x == work[w].event
           job == [work[w] EXCEPT !.at = "done"]
<1>1. /\ work[w] # None /\ work[w] \in Job /\ x.type = "deleted"
      /\ work' = [work EXCEPT ![w] = job] /\ profile'.sub = None
  BY DEF SaveDeleted, Saving, At, Go, TypeOK, Profile
<1>2. job \in Job /\ job.event = x /\ job.at # "save"
  BY <1>1 DEF Job
<1> HIDE DEF job
<1>3. ASSUME Decisive \subseteq {x}
      PROVE  Right'
  <2>1. x \in Decisive
    BY <1>1 DEF Following, InHand, Held, Decisive
  <2>2. \A y \in Decisive : y.id <= x.id
    BY <1>3, <2>1, NewsFields
  <2>3. \A s \in Subs : ~IsRunning(s)
    BY <1>1, <2>1, <2>2 DEF Following, Newest
  <2>4. QED
    BY <1>1, <2>3 DEF Right, IsRunning
<1>4. /\ x.type = "deleted" => profile'.sub = None
      /\ x.type = "changed" => job.live = x.status
  BY <1>1
<1>5. QED
  BY <1>1, <1>2, <1>3, <1>4, JobFollows

LEMMA SaveFailedFollows ==
    ASSUME TypeOK, Numbered, Following, NEW w \in Workers, SaveFailed(w),
           UNCHANGED <<status, events, last>>
    PROVE  Numbered' /\ Following'
<1> DEFINE x == work[w].event
           job == [work[w] EXCEPT !.at = "done"]
<1>1. /\ work[w] # None /\ work[w] \in Job /\ x.type = "failed" /\ work[w].at = "save"
      /\ work' = [work EXCEPT ![w] = job]
  BY DEF SaveFailed, Saving, At, Go, TypeOK
<1>2. job \in Job /\ job.event = x /\ job.at # "save"
  BY <1>1 DEF Job
<1>3. /\ profile'.sub = profile.sub /\ profile'.price = profile.price
      /\ profile'.premium = FALSE
  BY DEF SaveFailed, TypeOK, Profile
<1> HIDE DEF job
<1>4. Read(w)
  BY DEF Following, AllRead
<1>5. ASSUME Decisive \subseteq {x}
      PROVE  Right'
  <2>1. Decisive = {}
    BY <1>1, <1>5 DEF Decisive
  <2>2. Right
    BY <2>1 DEF Following, Agrees
  <2>3. status[profile.sub] \notin Paying
    BY <1>1, <1>4, <2>1 DEF Read
  <2>4. QED
    BY <1>3, <2>2, <2>3 DEF Right, IsRunning
<1>6. profile'.sub # None =>
         /\ IsRunning(profile'.sub) \/ EndPending(profile'.sub, 0)
         /\ \A y \in News : y.sub # profile'.sub => EndOf(profile'.sub, 0, y.id)
  BY <1>3 DEF Following, Known
<1>7. /\ x.type = "deleted" => profile'.sub = None
      /\ x.type = "changed" => job.live = x.status
  BY <1>1
<1>8. QED
  BY <1>1, <1>2, <1>5, <1>6, <1>7, JobFollows

(* The reward, and the calls of the credit, do not touch the tier.         *)
LEMMA TierRests ==
    ASSUME TypeOK, Numbered, Following, NEW w \in Workers, work[w] # None, NEW job \in Job,
           work[w].at # "save" \/ work[w].event.type = "paid",
           job.event = work[w].event, job.at # "save", job.live = work[w].live,
           work' = [work EXCEPT ![w] = job], UNCHANGED <<status, events, last>>,
           profile'.sub = profile.sub, profile'.price = profile.price,
           profile'.premium = profile.premium
    PROVE  Numbered' /\ Following'
<1> DEFINE x == work[w].event
<1>1. Read(w) /\ x \in events
  BY DEF Following, AllRead, InHand, Held
<1>2. x.type = "deleted" => profile'.sub = None
  BY <1>1 DEF Read
<1>3. x.type = "changed" => job.live = x.status
  BY <1>1 DEF Read
<1>4. ASSUME Decisive \subseteq {x}
      PROVE  Right'
  <2>1. Decisive \subseteq Told
    BY <1>4 DEF Told, Decisive
  <2>2. Right
    BY <2>1 DEF Following, Agrees
  <2>3. QED
    BY <2>2 DEF Right, IsRunning
<1>5. profile'.sub # None =>
         /\ IsRunning(profile'.sub) \/ EndPending(profile'.sub, 0)
         /\ \A y \in News : y.sub # profile'.sub => EndOf(profile'.sub, 0, y.id)
  BY DEF Following, Known
<1>6. QED
  BY <1>2, <1>3, <1>4, <1>5, JobFollows

LEMMA CreditFollows ==
    ASSUME TypeOK, Numbered, Following, NEW w \in Workers,
           \/ SavePaid(w) /\ UNCHANGED <<stripe, balance, faults, mess>>
           \/ LookUp(w) \/ Modify(w) \/ CallFails(w) \/ ResetPending(w)
    PROVE  Numbered' /\ Following'
<1>1. /\ work[w] # None /\ work[w] \in Job
      /\ work[w].at # "save" \/ work[w].event.type = "paid"
      /\ UNCHANGED <<status, events, last>>
  BY DEF SavePaid, LookUp, Modify, CallFails, ResetPending, Saving, At, TypeOK, stripe
<1>2. /\ profile'.sub = profile.sub /\ profile'.price = profile.price
      /\ profile'.premium = profile.premium /\ profile'.pending \in Nat
  BY DEF SavePaid, LookUp, Modify, CallFails, ResetPending, TypeOK, Profile
<1>3. ASSUME NEW at \in {"look", "modify", "reset", "done"}, Go(w, at)
      PROVE  Numbered' /\ Following'
  <2> DEFINE job == [work[w] EXCEPT !.at = at]
  <2>1. /\ job \in Job /\ job.event = work[w].event /\ job.at # "save" /\ job.live = work[w].live
        /\ work' = [work EXCEPT ![w] = job]
    BY <1>1, <1>3 DEF Job, Go
  <2> HIDE DEF job
  <2>2. QED
    BY <1>1, <1>2, <2>1, TierRests
<1>4. ASSUME NEW months \in Nat, NEW at \in {"look", "done"},
             work' = [work EXCEPT ![w].at = at, ![w].months = months]
      PROVE  Numbered' /\ Following'
  <2> DEFINE job == [work[w] EXCEPT !.at = at, !.months = months]
  <2>1. /\ job \in Job /\ job.event = work[w].event /\ job.at # "save" /\ job.live = work[w].live
        /\ work' = [work EXCEPT ![w] = job]
    BY <1>1, <1>4 DEF Job, TypeOK
  <2> HIDE DEF job
  <2>2. QED
    BY <1>1, <1>2, <2>1, TierRests
<1>5. CASE LookUp(w)
  <2> DEFINE job == [work[w] EXCEPT !.at = "modify", !.balance = balance]
  <2>1. /\ job \in Job /\ job.event = work[w].event /\ job.at # "save" /\ job.live = work[w].live
        /\ work' = [work EXCEPT ![w] = job]
    BY <1>1, <1>5 DEF Job, TypeOK, LookUp
  <2> HIDE DEF job
  <2>2. QED
    BY <1>1, <1>2, <2>1, TierRests
<1>6. CASE Modify(w) \/ CallFails(w) \/ ResetPending(w)
  BY <1>3, <1>6 DEF Modify, CallFails, ResetPending
<1>7. CASE SavePaid(w)
  BY <1>2, <1>3, <1>4, <1>7 DEF SavePaid
<1>8. QED
  BY <1>5, <1>6, <1>7

(* The event is answered: it was the first of the queue.                   *)
LEMMA FinishFollows ==
    ASSUME TypeOK, Numbered, Following, NEW w \in Workers, Finish(w)
    PROVE  Numbered' /\ Following'
<1> DEFINE x == work[w].event
<1>1. /\ work[w] # None /\ work[w].at = "done" /\ work' = [work EXCEPT ![w] = None]
      /\ events' = events \ {x} /\ UNCHANGED <<status, last, profile>>
  BY DEF Finish, At
<1>2. x \in events /\ (x \in News => \A y \in News : x.id <= y.id) /\ Read(w)
  BY <1>1 DEF Following, InHand, Held, AllRead
<1>3. \A v \in Workers : work'[v] = None
  BY <1>1 DEF Following, Alone, TypeOK
<1>4. News' = News \ {x} /\ Decisive' = Decisive \ {x}
  BY <1>1 DEF News, Decisive
<1>5. /\ \A y \in News : y.id \in Nat /\ y \in events
      /\ Decisive \subseteq News
  BY NewsFields
<1>6. \A y \in News' : x \in News => x.id < y.id
  <2> TAKE y \in News'
  <2> HAVE x \in News
  <2>1. y.id # x.id
    BY <1>2, <1>4, <1>5 DEF Numbered
  <2>2. QED
    BY <1>2, <1>4, <1>5, <2>1
<1>7. \A d \in News, y \in News' : y.id <= d.id => d \in News'
  <2> TAKE d \in News, y \in News'
  <2> HAVE y.id <= d.id
  <2>1. d # x
    BY <1>4, <1>5, <1>6
  <2>2. QED
    BY <1>4, <2>1
<1>8. Numbered'
  BY <1>1 DEF Numbered
<1>9. OneRuns' /\ Alone' /\ InHand' /\ AllRead'
  BY <1>1, <1>3 DEF Following, OneRuns, IsRunning, Alone, InHand, Held, AllRead, Read
<1>10. Newest'
  <2> SUFFICES ASSUME NEW y \in Decisive', \A z \in Decisive' : z.id <= y.id
               PROVE  /\ y.type = "changed" => status[y.sub] = y.status
                      /\ y.type = "deleted" => \A s \in Subs : ~IsRunning(s)
    BY <1>1 DEF Newest, IsRunning
  <2>1. y \in News' /\ y \in Decisive
    BY <1>4, <1>5
  <2>2. \A z \in Decisive : z.id <= y.id
    BY <1>4, <1>5, <1>6, <2>1
  <2>3. QED
    BY <2>1, <2>2 DEF Following, Newest
<1>11. Chain'
  <2> SUFFICES ASSUME NEW y \in News', NEW z \in News', y.id < z.id, y.sub # z.sub
               PROVE  EndOf(y.sub, y.id, z.id)'
    BY DEF Chain
  <2>1. EndOf(y.sub, y.id, z.id)
    BY <1>4 DEF Following, Chain
  <2>2. QED
    BY <1>7, <2>1 DEF EndOf
<1>12. Alive'
  <2> SUFFICES ASSUME NEW y \in News' PROVE IsRunning(y.sub)' \/ EndPending(y.sub, y.id)'
    BY DEF Alive
  <2>1. IsRunning(y.sub) \/ EndPending(y.sub, y.id)
    BY <1>4 DEF Following, Alive
  <2>2. QED
    BY <1>1, <1>7, <2>1 DEF EndPending, IsRunning
<1>13. Known'
  <2> SUFFICES ASSUME profile.sub # None
               PROVE  /\ IsRunning(profile.sub)' \/ EndPending(profile.sub, 0)'
                      /\ \A y \in News' : y.sub # profile.sub => EndOf(profile.sub, 0, y.id)'
    BY <1>1 DEF Known
  <2>1. x.type # "deleted"
    BY <1>1, <1>2 DEF Read
  <2>2. \A d \in News : d.type = "deleted" => d \in News'
    BY <1>4, <2>1
  <2>3. /\ IsRunning(profile.sub) \/ EndPending(profile.sub, 0)
        /\ \A y \in News : y.sub # profile.sub => EndOf(profile.sub, 0, y.id)
    BY DEF Following, Known
  <2>4. IsRunning(profile.sub)' \/ EndPending(profile.sub, 0)'
    BY <1>1, <2>2, <2>3 DEF EndPending, IsRunning
  <2>5. \A y \in News' : y.sub # profile.sub => EndOf(profile.sub, 0, y.id)'
    BY <1>1, <1>4, <2>2, <2>3 DEF EndOf
  <2>6. QED
    BY <2>4, <2>5
<1>14. Agrees'
  <2> SUFFICES ASSUME Decisive' \subseteq Told' PROVE Right'
    BY DEF Agrees
  <2>1. Decisive' = {}
    BY <1>3 DEF Told
  <2>2. Decisive \subseteq Told
    BY <1>1, <1>4, <2>1 DEF Told
  <2>3. QED
    BY <1>1, <2>2 DEF Following, Agrees, Right, IsRunning
<1>15. QED
  BY <1>8, <1>9, <1>10, <1>11, <1>12, <1>13, <1>14 DEF Following

(* The worker dies, and the event comes again.                             *)
LEMMA DieFollows ==
    ASSUME TypeOK, Numbered, Following, NEW w \in Workers, Die(w)
    PROVE  Numbered' /\ Following'
<1>1. work[w] # None /\ work' = [work EXCEPT ![w] = None] /\ UNCHANGED <<status, events, last, profile>>
  BY DEF Die, stripe
<1>2. \A v \in Workers : work'[v] = None
  BY <1>1 DEF Following, Alone, TypeOK
<1>3. News' = News /\ Decisive' = Decisive
  BY <1>1 DEF News, Decisive
<1>4. Numbered' /\ OneRuns' /\ Newest' /\ Chain' /\ Alive' /\ Known'
  BY <1>1, <1>3
     DEF Following, Numbered, OneRuns, IsRunning, Newest, Chain, Alive, Known, EndOf, EndPending
<1>5. Alone' /\ InHand' /\ AllRead'
  BY <1>2 DEF Alone, InHand, Held, AllRead, Read
<1>6. Agrees'
  <2>1. Told' = {} /\ (Right' <=> Right)
    BY <1>1, <1>2 DEF Told, Right, IsRunning
  <2>2. QED
    BY <1>3, <2>1 DEF Following, Agrees
<1>7. QED
  BY <1>4, <1>5, <1>6 DEF Following

LEMMA FollowInit == Init => FollowInv
<1> SUFFICES ASSUME Init PROVE Numbered /\ Following
  BY DEF FollowInv
<1>1. /\ events = {} /\ profile.sub = None
      /\ \A s \in Subs : ~IsRunning(s)
      /\ \A w \in Workers : work[w] = None
  BY DEF Init, IsRunning, Running, Paying
<1>2. Numbered /\ OneRuns /\ Alone /\ InHand /\ AllRead
  BY <1>1 DEF Numbered, OneRuns, Alone, InHand, Held, AllRead, Read
<1>3. Newest /\ Chain /\ Alive /\ Known
  BY <1>1 DEF News, Decisive, Newest, Chain, Alive, Known
<1>4. Agrees
  BY <1>1 DEF Agrees, Right
<1>5. QED
  BY <1>2, <1>3, <1>4 DEF Following

LEMMA FollowNext ==
    ASSUME TypeInv, FollowInv, [Next]_vars
    PROVE  FollowInv'
<1> SUFFICES ASSUME mess' = {} PROVE Numbered' /\ Following'
  BY DEF FollowInv
<1>1. TypeOK /\ TypeOK'
  BY NextType DEF TypeInv
<1>2. mess \subseteq mess'
  BY DEF Next, Checkout, Pay, Unsubscribe, Change, FriendPays, FriendLinked, Receive, StartCompleted,
         StartChanged, StartDeleted, StartFailed, StartPaid, Start, Save, LookUp, Modify, CallFails,
         ResetPending, Finish, Die, vars
<1>3. Numbered /\ Following
  BY <1>2 DEF FollowInv
<1>4. ASSUME NEW s \in Subs, Checkout(s) \/ Pay(s) \/ Unsubscribe(s)
      PROVE  Numbered' /\ Following'
  BY <1>1, <1>3, <1>4, OutsideFollows, PayFollows, UnsubscribeFollows
<1>5. ASSUME NEW s \in Subs, NEW now \in Running, Change(s, now)
      PROVE  Numbered' /\ Following'
  BY <1>1, <1>3, <1>5, ChangeFollows
<1>6. ASSUME NEW f \in Friends, FriendPays(f) \/ FriendLinked(f)
      PROVE  Numbered' /\ Following'
  BY <1>1, <1>3, <1>6, OutsideFollows
<1>7. ASSUME NEW w \in Workers, NEW x \in events, Receive(w, x)
      PROVE  Numbered' /\ Following'
  BY <1>1, <1>3, <1>7, ReceiveFollows
<1>8. ASSUME NEW w \in Workers, Save(w)
      PROVE  Numbered' /\ Following'
  <2>1. UNCHANGED <<stripe, balance, faults, mess>> /\ UNCHANGED <<status, events, last>>
    BY <1>8 DEF Save, stripe
  <2>2. QED
    BY <1>1, <1>3, <1>8, <2>1, SaveCompletedFollows, SaveChangedFollows, SaveDeletedFollows,
       SaveFailedFollows, CreditFollows DEF Save
<1>9. ASSUME NEW w \in Workers,
             LookUp(w) \/ Modify(w) \/ CallFails(w) \/ ResetPending(w) \/ Finish(w) \/ Die(w)
      PROVE  Numbered' /\ Following'
  BY <1>1, <1>3, <1>9, CreditFollows, FinishFollows, DieFollows
<1>10. CASE UNCHANGED vars
  <2>1. UNCHANGED <<work, status, events, last, profile>>
    BY <1>10 DEF vars
  <2>2. News' = News /\ Decisive' = Decisive /\ Numbered' /\ events \subseteq events'
    BY <1>3, <2>1 DEF News, Decisive, Numbered
  <2>3. QED
    BY <1>1, <1>3, <2>1, <2>2, StillFollows
<1>11. QED
  BY <1>4, <1>5, <1>6, <1>7, <1>8, <1>9, <1>10 DEF Next

(* Once every event is handled, one at a time and in the order Stripe sent  *)
(* them, the paid tier is there exactly while a subscription is paid and    *)
(* the checkout is open exactly if none runs: whatever was repeated, failed *)
(* or died on the way, for any subscriptions, workers, events and faults    *)
(* (views_stripe.py:534, "Source of truth").                                *)
THEOREM PremiumRight == Spec => []PremiumFollows
<1>1. TypeInv /\ FollowInv => PremiumFollows
  <2> SUFFICES ASSUME TypeInv, FollowInv, Calm, events = {}, mess = {}
               PROVE  /\ profile.premium <=> \E s \in Subs : status[s] \in Paying
                      /\ profile.sub # None <=> \E s \in Subs : status[s] \in Running
    BY DEF PremiumFollows
  <2>1. Right
    BY DEF FollowInv, Following, Agrees, Decisive
  <2>2. profile.sub # None => profile.sub \in Subs
    BY DEF TypeInv, TypeOK, Profile
  <2>3. \A s \in Subs : status[s] \in Paying => IsRunning(s)
    BY DEF IsRunning, Running
  <2>4. \A s \in Subs : s # None
    BY SubscriptionAssumption
  <2>5. profile.premium => profile.sub # None
    BY DEF TypeInv, TypeOK
  <2>6. QED
    BY <2>1, <2>2, <2>3, <2>4, <2>5 DEF Right, IsRunning
<1>2. Init => TypeInv /\ FollowInv
  BY InitType, FollowInit
<1>3. TypeInv /\ FollowInv /\ [Next]_vars => TypeInv' /\ FollowInv'
  BY NextType, FollowNext
<1>4. Spec => [](TypeInv /\ FollowInv)
  BY <1>2, <1>3, PTL DEF Spec
<1>5. QED
  BY <1>1, <1>4, PTL
=============================================================================
