-------------------------------- MODULE Waitlist --------------------------------
(***************************************************************************)
(* The landing page's waiting list: a form that is sent again after an     *)
(* error, a worker of which several run at once on one table, its two      *)
(* switches, and the daily sweep that keeps the promise to delete.         *)
(***************************************************************************)
EXTENDS Naturals, FiniteSets

CONSTANTS
  Forms,        \* open pages with the form
  Addresses,    \* addresses in the form they are stored in
  MaxSubmits    \* how often a form is sent

VARIABLES
  form,         \* the page: what it shows, its address, and whether its trap is filled
  inquiry,      \* what the worker does for it
  submits,
  signup,          \* waitlist_signups by address: none, active, or no longer active
  ever,         \* the addresses that had a row
  gate,         \* isWaitlistEnabled
  time,         \* before the end of the beta is set, in the 90 days, or after them
  sweeping      \* the sweep between its two statements

waitlistVars == <<form, inquiry, submits, signup, ever, gate, time, sweeping>>

FormStates == {"idle", "submitting", "success", "error"}
RequestSteps == {"none", "sent", "absent", "accepted", "refused"}

WaitlistTypeOK ==
  /\ form \in [Forms -> [shows : FormStates, address : Addresses, trap : BOOLEAN]]
  /\ inquiry \in [Forms -> RequestSteps]
  /\ signup \in [Addresses -> {"none", "active", "inactive"}]
  /\ ever \subseteq Addresses
  /\ time \in {"before", "grace", "over"} /\ sweeping \in BOOLEAN

WaitlistInit ==
  /\ form \in [Forms -> [shows : {"idle"}, address : Addresses, trap : BOOLEAN]]
  /\ inquiry = [f \in Forms |-> "none"]
  /\ submits = [f \in Forms |-> 0]
  /\ signup \in [Addresses -> {"none", "inactive"}]
  /\ ever = {e \in Addresses : signup[e] # "none"}
  /\ gate = TRUE /\ time = "before" /\ sweeping = FALSE

-----------------------------------------------------------------------------
(* The page. *)

\* onSubmit: the button is off while a request is out, and gone after a success.
Submits(f) ==
  /\ form[f].shows \in {"idle", "error"} /\ inquiry[f] = "none"
  /\ submits[f] < MaxSubmits
  /\ form' = [form EXCEPT ![f].shows = "submitting"]
  /\ inquiry' = [inquiry EXCEPT ![f] = "sent"]
  /\ submits' = [submits EXCEPT ![f] = @ + 1]
  /\ UNCHANGED <<signup, ever, gate, time, sweeping>>

\* The answer comes: only an answer of 200 with a message is a success.
PageHears(f) ==
  /\ form[f].shows = "submitting" /\ inquiry[f] \in {"accepted", "refused"}
  /\ form' = [form EXCEPT ![f].shows = IF inquiry[f] = "accepted" THEN "success" ELSE "error"]
  /\ inquiry' = [inquiry EXCEPT ![f] = "none"]
  /\ UNCHANGED <<submits, signup, ever, gate, time, sweeping>>

\* The connection breaks; what the worker has begun it goes on with.
BreaksForm(f) ==
  /\ form[f].shows = "submitting"
  /\ form' = [form EXCEPT ![f].shows = "error"]
  /\ inquiry' = [inquiry EXCEPT ![f] = IF @ = "absent" THEN @ ELSE "none"]
  /\ UNCHANGED <<submits, signup, ever, gate, time, sweeping>>

-----------------------------------------------------------------------------
(* The worker. *)

AnswerForm(f, a) ==
  inquiry' = [inquiry EXCEPT ![f] = IF form[f].shows = "submitting" THEN a ELSE "none"]

\* handleWaitlistRequest and parseWaitlistPayload: a closed gate, a body that is not
\* in order, or a filled trap, which is told what a sign-up is told.
Declines(f) ==
  /\ inquiry[f] = "sent"
  /\ AnswerForm(f, IF gate /\ form[f].trap THEN "accepted" ELSE "refused")
  /\ UNCHANGED <<form, submits, signup, ever, gate, time, sweeping>>

\* findByEmail: whoever is there already is told what a new one is told.
Looks(f) ==
  LET known == signup[form[f].address] # "none" IN
  /\ inquiry[f] = "sent" /\ gate /\ ~form[f].trap
  /\ IF known THEN AnswerForm(f, "accepted") ELSE inquiry' = [inquiry EXCEPT ![f] = "absent"]
  /\ UNCHANGED <<form, submits, signup, ever, gate, time, sweeping>>

\* (Mutant: any failure of the insert counts as a lost race.)
InsertsOrNot(f) ==
  LET e == form[f].address IN
  /\ inquiry[f] = "absent"
  /\ signup' \in {signup, [signup EXCEPT ![e] = IF @ = "none" THEN "active" ELSE @]}
  /\ ever' = {x \in Addresses : x \in ever \/ signup'[x] # "none"}
  /\ AnswerForm(f, "accepted")
  /\ UNCHANGED <<form, submits, gate, time, sweeping>>
\* insert, or the unique index when another request was faster.
Inserts(f) ==
  LET e == form[f].address IN
  /\ inquiry[f] = "absent"
  /\ signup' = [signup EXCEPT ![e] = IF @ = "none" THEN "active" ELSE @]
  /\ ever' = ever \union {e}
  /\ AnswerForm(f, "accepted")
  /\ UNCHANGED <<form, submits, gate, time, sweeping>>

\* The database fails: the worker's error is the page's.
Throws(f) ==
  /\ inquiry[f] \in {"sent", "absent"} /\ gate /\ ~form[f].trap
  /\ AnswerForm(f, "refused")
  /\ UNCHANGED <<form, submits, signup, ever, gate, time, sweeping>>

\* The configuration changes: the gate, the end of the beta, and the days after it.
Switches ==
  /\ gate' = ~gate
  /\ UNCHANGED <<form, inquiry, submits, signup, ever, time, sweeping>>
TimePasses ==
  /\ time # "over"
  /\ time' = IF time = "before" THEN "grace" ELSE "over"
  /\ UNCHANGED <<form, inquiry, submits, signup, ever, gate, sweeping>>

\* (Mutant: the days are compared the wrong way round.)
SweepsEarly ==
  /\ ~sweeping
  /\ signup' = [e \in Addresses |-> IF signup[e] = "inactive" THEN "none" ELSE signup[e]]
  /\ sweeping' = (time = "grace")
  /\ UNCHANGED <<form, inquiry, submits, ever, gate, time>>

\* runWaitlistRetention: rows that are not active go on every run, then, once the
\* days are over, the others.
SweepsInactive ==
  /\ ~sweeping
  /\ signup' = [e \in Addresses |-> IF signup[e] = "inactive" THEN "none" ELSE signup[e]]
  /\ sweeping' = (time = "over")
  /\ UNCHANGED <<form, inquiry, submits, ever, gate, time>>
SweepsActive ==
  /\ sweeping
  /\ signup' = [e \in Addresses |-> IF signup[e] = "active" THEN "none" ELSE signup[e]]
  /\ sweeping' = FALSE
  /\ UNCHANGED <<form, inquiry, submits, ever, gate, time>>

-----------------------------------------------------------------------------
WaitlistNext ==
  \/ \E f \in Forms :
       \/ Submits(f) \/ PageHears(f) \/ BreaksForm(f)
       \/ Declines(f) \/ Looks(f) \/ Inserts(f) \/ Throws(f)
  \/ Switches \/ TimePasses
  \/ SweepsInactive \/ SweepsActive

\* The trigger of every day comes, and a sweep that has begun ends.
WaitlistFairness == WF_waitlistVars(SweepsInactive \/ SweepsActive)

WaitlistSpec == WaitlistInit /\ [][WaitlistNext]_waitlistVars /\ WaitlistFairness

(***************************************************************************)
(* A page whose trap is not filled only says that its address is on the    *)
(* list when it is, or was until it was deleted again.                     *)
(***************************************************************************)
ToldIsListed ==
  \A f \in Forms :
    form[f].shows = "success" /\ ~form[f].trap => form[f].address \in ever

(***************************************************************************)
(* Once the ninety days are over every row goes, one that a late sign-up   *)
(* wrote too.                                                              *)
(***************************************************************************)
ListIsEmpty == \A e \in Addresses : signup[e] = "none"
RowsGo == \A e \in Addresses : (time = "over" /\ signup[e] # "none") ~> signup[e] = "none"

\* Whoever is told so stays on the list until the beta has ended. (It fails.)
ToldStays == \A f \in Forms :
  form[f].shows = "success" /\ ~form[f].trap /\ time = "before"
  => signup[form[f].address] = "active"

=============================================================================
