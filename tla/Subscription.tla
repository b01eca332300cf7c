---------------------------- MODULE Subscription ----------------------------
(***************************************************************************)
(* core/views_stripe.py and core/referrals.py: one tutor's subscription    *)
(* and the free months he earns by referring friends.                      *)
(*                                                                         *)
(* Stripe owns the subscription and the balance; what the server knows of  *)
(* them it learns from webhook events and from questions it asks Stripe    *)
(* while it handles one.  Stripe repeats an event until it is answered     *)
(* with 200, in no promised order, and several workers take events at the  *)
(* same time, also the same one.  Every call to Stripe and every           *)
(* transaction is a step; Stripe and the tutor go on in between, and a     *)
(* worker may die anywhere.                                                *)
(***************************************************************************)
EXTENDS Naturals, FiniteSets

CONSTANTS
    Subs,       \* subscriptions at Stripe
    Friends,    \* users registered with the tutor's referral code
    Workers,
    MaxEvents,  \* bound: events Stripe sends
    MaxFaults,  \* bound: workers that die and replies of Stripe that are lost
    MaxMess,    \* bound: how much of what "mess" tells apart comes together
    None

ASSUME SubscriptionAssumption ==
    /\ MaxEvents \in Nat /\ MaxFaults \in Nat /\ MaxMess \in Nat
    /\ None \notin Subs

VARIABLES
    status,   \* [Subs -> Statuses]                  at Stripe
    trial,    \* [Subs -> BOOLEAN]                   the checkout offers the trial
    balance,  \* months credited at Stripe
    events,   \* SUBSET Event                        not yet answered with 200
    last,     \* events sent so far
    profile,  \* Profile                             the tutor's UserProfile
    linked,   \* friends whose own profile knows its subscription
    granted,  \* friends with referral_reward_granted
    work,     \* [Workers -> Job \cup {None}]
    earned,   \* history: months granted
    faults,   \* workers that died, replies that were lost
    mess      \* history: "overlap": events handled at the same time, "order": one
              \* before an earlier one, "doubled": two subscriptions at a time

vars == <<status, trial, balance, events, last, profile, linked, granted, work, earned, faults, mess>>
stripe == <<status, trial, events, last>>
reward == <<linked, granted, earned>>

Paying == {"active", "trialing"}
Running == Paying \cup {"past_due"}
Statuses == Running \cup {"none", "checkout", "canceled"}

Event == [id : 1..MaxEvents, type : {"completed", "deleted", "failed"}, sub : Subs]
         \cup [id : 1..MaxEvents, type : {"changed"}, sub : Subs, status : Running]
         \cup [id : 1..MaxEvents, type : {"paid"}, friend : Friends]
Profile == [premium : BOOLEAN, sub : Subs \cup {None}, price : BOOLEAN, customer : BOOLEAN,
            trialUsed : BOOLEAN, pending : Nat]
Job == [event : Event, at : {"save", "look", "modify", "reset", "done"},
        live : Statuses \cup {None}, months : Nat, balance : Nat]

ASSUME NoneAssumption == None \notin Job

(* A paid tier has a subscription and a price.                             *)
TypeOK ==
    /\ status \in [Subs -> Statuses]
    /\ trial \in [Subs -> BOOLEAN]
    /\ balance \in Nat /\ earned \in Nat /\ last \in 0..MaxEvents
    /\ events \subseteq Event
    /\ profile \in Profile
    /\ profile.premium => profile.sub # None /\ profile.price
    /\ linked \subseteq Friends /\ granted \subseteq linked
    /\ work \in [Workers -> Job \cup {None}]
    /\ faults \in 0..MaxFaults
    /\ mess \subseteq {"overlap", "order", "doubled"}

Init ==
    /\ status = [s \in Subs |-> "none"] /\ trial = [s \in Subs |-> FALSE]
    /\ balance = 0 /\ events = {} /\ last = 0
    /\ profile = [premium |-> FALSE, sub |-> None, price |-> FALSE, customer |-> FALSE,
                  trialUsed |-> FALSE, pending |-> 0]
    /\ linked = {} /\ granted = {} /\ earned = 0
    /\ work = [w \in Workers |-> None]
    /\ faults = 0 /\ mess = {}
-----------------------------------------------------------------------------
(* What Stripe and the people do.                                          *)
Send(some) ==
    /\ last + Cardinality(some) <= MaxEvents
    /\ last' = last + Cardinality(some)
    /\ events' = events \cup some

(* The guard of a checkout, and the session; the customer is created once, *)
(* under the lock of the profile (SubscriptionCheckoutView).               *)
Checkout(s) ==
    /\ ~profile.premium /\ profile.sub = None
    /\ status[s] = "none"
    /\ status' = [status EXCEPT ![s] = "checkout"]
    /\ trial' = [trial EXCEPT ![s] = ~profile.trialUsed]
    /\ profile' = [profile EXCEPT !.customer = TRUE]
    /\ UNCHANGED <<balance, events, last, reward, work, faults, mess>>

Doubled(s) == IF \E t \in Subs \ {s} : status[t] \in Running THEN {"doubled"} ELSE {}

Pay(s) ==
    /\ status[s] = "checkout"
    /\ \E now \in Paying : \E a, b \in {last + 1, last + 2} :
          /\ now = (IF trial[s] THEN "trialing" ELSE "active")
          /\ a # b
          /\ status' = [status EXCEPT ![s] = now]
          /\ Send({[id |-> a, type |-> "completed", sub |-> s],
                   [id |-> b, type |-> "changed", sub |-> s, status |-> now]})
    /\ mess' = mess \cup Doubled(s)
    /\ Cardinality(mess') <= MaxMess
    /\ UNCHANGED <<trial, balance, profile, reward, work, faults>>

(* The trial ends, a payment fails or is made up for.                      *)
Change(s, now) ==
    /\ status[s] \in Running /\ now \in {"active", "past_due"} \ {status[s]}
    /\ status' = [status EXCEPT ![s] = now]
    /\ Send({[id |-> last + 1, type |-> "changed", sub |-> s, status |-> now]}
            \cup {x \in {[id |-> last + 2, type |-> "failed", sub |-> s]} : now = "past_due"})
    /\ UNCHANGED <<trial, balance, profile, reward, work, faults, mess>>

Unsubscribe(s) ==
    /\ status[s] \in Running
    /\ status' = [status EXCEPT ![s] = "canceled"]
    /\ Send({[id |-> last + 1, type |-> "deleted", sub |-> s]})
    /\ UNCHANGED <<trial, balance, profile, reward, work, faults, mess>>

FriendPays(f) ==
    /\ Send({[id |-> last + 1, type |-> "paid", friend |-> f]})
    /\ UNCHANGED <<status, trial, balance, profile, reward, work, faults, mess>>

\* an event of the friend's own subscription is handled
FriendLinked(f) ==
    /\ linked' = linked \cup {f} /\ linked' # linked
    /\ UNCHANGED <<stripe, balance, profile, granted, earned, work, faults, mess>>
-----------------------------------------------------------------------------
(* A worker takes an event, new or repeated, and reads what it decides on. *)
InOrder(x) ==
    x.type \in {"failed", "paid"} \/ \A y \in events : y.type \in {"failed", "paid"} \/ x.id <= y.id

Start(w, x, at, live) ==
    /\ work' = [work EXCEPT ![w] = [event |-> x, at |-> at, live |-> live, months |-> 0, balance |-> 0]]
    /\ mess' = mess \cup {m \in {"overlap"} : \E v \in Workers : work[v] # None}
                    \cup {m \in {"order"} : ~InOrder(x)}
    /\ Cardinality(mess') <= MaxMess
    /\ UNCHANGED <<stripe, balance, profile, reward, faults>>

(* checkout.session.completed asks Stripe for the subscription, which may  *)
(* fail; the events of a subscription bring its status along.              *)
StartCompleted(w, x) ==
    /\ x.type = "completed"
    /\ \E live \in {status[x.sub], None} : Start(w, x, "save", live)

StartChanged(w, x) ==
    /\ x.type = "changed"
    /\ Start(w, x, "save", x.status)

Tracked(x) == profile.sub = x.sub

StartDeleted(w, x) ==
    /\ x.type = "deleted"
    /\ Start(w, x, IF Tracked(x) THEN "save" ELSE "done", None)

(* If Stripe does not say how it stands, the answer is 500 and the event   *)
(* comes again.                                                            *)
StartFailed(w, x) ==
    /\ x.type = "failed"
    /\ Start(w, x, IF Tracked(x) /\ status[x.sub] \notin Paying THEN "save" ELSE "done", None)

Due(f) == f \in linked /\ f \notin granted

StartPaid(w, x) ==
    /\ x.type = "paid"
    /\ Start(w, x, IF Due(x.friend) THEN "save" ELSE "done", None)

Receive(w, x) ==
    /\ work[w] = None
    /\ \/ StartCompleted(w, x) \/ StartChanged(w, x) \/ StartDeleted(w, x)
       \/ StartFailed(w, x) \/ StartPaid(w, x)

(* The transaction of each handler.                                        *)
At(w, at) == work[w] # None /\ work[w].at = at
Go(w, at) == work' = [work EXCEPT ![w].at = at]
Saving(w, type) == At(w, "save") /\ work[w].event.type = type

SaveCompleted(w) ==
    LET s == work[w].event.sub
        live == work[w].live
    IN /\ Saving(w, "completed")
       /\ profile' = [profile EXCEPT !.sub = s,
                         !.trialUsed = @ \/ live = "trialing",
                         !.premium = IF live = None THEN @ ELSE live \in Paying /\ profile.price]
       /\ Go(w, "done")
       /\ UNCHANGED reward

(* The months that are pending are credited now that there is a price.     *)
SaveChanged(w) ==
    /\ Saving(w, "changed")
    /\ profile' = [profile EXCEPT !.sub = work[w].event.sub, !.price = TRUE,
                                  !.premium = work[w].live \in Paying]
    /\ work' = [work EXCEPT ![w].at = IF profile.pending > 0 THEN "look" ELSE "done",
                            ![w].months = profile.pending]
    /\ UNCHANGED reward

\* mutant: the tier is not taken back
KeepTier(w) ==
    /\ Saving(w, "deleted")
    /\ profile' = [profile EXCEPT !.sub = None, !.price = FALSE]
    /\ Go(w, "done")
    /\ UNCHANGED reward

\* mutant: the subscription that is over stays the tutor's
ForgetNothing(w) ==
    /\ Saving(w, "deleted")
    /\ profile' = [profile EXCEPT !.price = FALSE, !.premium = FALSE]
    /\ Go(w, "done")
    /\ UNCHANGED reward

SaveDeleted(w) ==
    /\ Saving(w, "deleted")
    /\ profile' = [profile EXCEPT !.sub = None, !.price = FALSE, !.premium = FALSE]
    /\ Go(w, "done")
    /\ UNCHANGED reward

SaveFailed(w) ==
    /\ Saving(w, "failed")
    /\ profile' = [profile EXCEPT !.premium = FALSE]
    /\ Go(w, "done")
    /\ UNCHANGED reward

\* mutant: the flag is not looked at again
GrantAgain(w) ==
    /\ Saving(w, "paid")
    /\ granted' = granted \cup {work[w].event.friend} /\ earned' = earned + 1
    /\ profile' = [profile EXCEPT !.pending = @ + 1]
    /\ work' = [work EXCEPT ![w].at = IF profile.customer /\ profile.price THEN "look" ELSE "done",
                            ![w].months = profile'.pending]
    /\ UNCHANGED linked

(* The flag is looked at again under the lock.                             *)
SavePaid(w) ==
    LET f == work[w].event.friend IN
    /\ Saving(w, "paid")
    /\ \/ /\ f \in granted
          /\ Go(w, "done")
          /\ UNCHANGED <<profile, reward>>
       \/ /\ f \notin granted
          /\ granted' = granted \cup {f} /\ earned' = earned + 1
          /\ profile' = [profile EXCEPT !.pending = @ + 1]
          /\ work' = [work EXCEPT ![w].at = IF profile.customer /\ profile.price THEN "look" ELSE "done",
                                  ![w].months = profile'.pending]
          /\ UNCHANGED linked

Save(w) ==
    /\ \/ SaveCompleted(w) \/ SaveChanged(w) \/ SaveDeleted(w) \/ SaveFailed(w) \/ SavePaid(w)
    /\ UNCHANGED <<stripe, balance, faults, mess>>
-----------------------------------------------------------------------------
(* apply_pending_referral_credit: the balance is read, written, and the    *)
(* months are no longer pending.  A call that fails ends it.               *)
LookUp(w) ==
    /\ At(w, "look")
    /\ work' = [work EXCEPT ![w].at = "modify", ![w].balance = balance]
    /\ UNCHANGED <<stripe, balance, profile, reward, faults, mess>>

Modify(w) ==
    /\ At(w, "modify")
    /\ balance' = work[w].balance + work[w].months
    /\ \/ Go(w, "reset") /\ UNCHANGED faults
       \/ Go(w, "done") /\ faults < MaxFaults /\ faults' = faults + 1
    /\ UNCHANGED <<stripe, profile, reward, mess>>

CallFails(w) ==
    /\ At(w, "look") \/ At(w, "modify")
    /\ Go(w, "done")
    /\ UNCHANGED <<stripe, balance, profile, reward, faults, mess>>

ResetPending(w) ==
    /\ At(w, "reset")
    /\ profile' = [profile EXCEPT !.pending = 0]
    /\ Go(w, "done")
    /\ UNCHANGED <<stripe, balance, reward, faults, mess>>

(* processed_at is set and the answer is 200.                              *)
Finish(w) ==
    /\ At(w, "done")
    /\ events' = events \ {work[w].event}
    /\ work' = [work EXCEPT ![w] = None]
    /\ UNCHANGED <<status, trial, balance, last, profile, reward, faults, mess>>

Die(w) ==
    /\ work[w] # None
    /\ faults < MaxFaults /\ faults' = faults + 1
    /\ work' = [work EXCEPT ![w] = None]
    /\ UNCHANGED <<stripe, balance, profile, reward, mess>>

Next ==
    \/ \E s \in Subs : Checkout(s) \/ Pay(s) \/ Unsubscribe(s)
    \/ \E s \in Subs, now \in Running : Change(s, now)
    \/ \E f \in Friends : FriendPays(f) \/ FriendLinked(f)
    \/ \E w \in Workers, x \in events : Receive(w, x)
    \/ \E w \in Workers :
          \/ Save(w) \/ LookUp(w) \/ Modify(w) \/ CallFails(w) \/ ResetPending(w)
          \/ Finish(w) \/ Die(w)

Spec == Init /\ [][Next]_vars
-----------------------------------------------------------------------------
Calm == \A w \in Workers : work[w] = None

(* "Source of truth: only webhook events set subscription_tier"            *)
(* (views_stripe.py:534): when every event is handled - the events of a    *)
(* subscription one after the other and as Stripe sent them, whatever      *)
(* fails, is repeated or happens at Stripe in the meantime - the paid tier *)
(* is there exactly while a subscription is paid, and the checkout is open *)
(* again exactly if none is running.                                       *)
PremiumFollows ==
    Calm /\ events = {} /\ mess = {} =>
        /\ profile.premium <=> \E s \in Subs : status[s] \in Paying
        /\ profile.sub # None <=> \E s \in Subs : status[s] \in Running

(* A friend brings one month however often and by how many workers his     *)
(* payments are handled; a month is credited or still pending, and unless  *)
(* a worker died or a reply was lost not both (referrals.py:72-80,         *)
(* 121-127).                                                               *)
MonthsKept ==
    /\ earned = Cardinality(granted)
    /\ Calm /\ "overlap" \notin mess =>
          /\ balance + profile.pending >= earned
          /\ faults = 0 => balance + profile.pending = earned
=============================================================================
