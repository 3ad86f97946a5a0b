----------------------------- MODULE Recurrence -----------------------------
(***************************************************************************)
(* The schedule of a DataDoc or a task between the cron of its row and the *)
(* form of the recurrence editor (lib/utils/cron.ts).  A field of a cron   *)
(* is the set of the numbers it lists; Any stands for *, Step for a range  *)
(* or a step.                                                              *)
(***************************************************************************)
EXTENDS Integers

CONSTANTS
    Times,          \* minutes and hours
    Days,           \* days and months that are listed
    None

VARIABLES
    cron,           \* of the row
    form,           \* the recurrence in the editor, or None
    touched         \* the form was edited

evars == <<cron, form, touched>>

Any == {}
Step == {-1}

FieldOf(numbers) == {Any, Step} \cup {{n} : n \in numbers} \cup {numbers}

Crons == [minute : FieldOf(Times), hour : FieldOf(Times),
          dayMonth : FieldOf(Days), month : FieldOf(Days), dayWeek : FieldOf(Days)]

\* Crons for a form of each kind, and some that the editor does not support
SomeCrons ==
    {c \in Crons : /\ c.minute = c.hour \/ c.hour = Any
                   /\ Step \in {c.minute, c.hour, c.dayMonth} => c.month = Any}

-----------------------------------------------------------------------------

IsHourly(c) == /\ c.minute # Any
               /\ c.hour = Any /\ c.dayMonth = Any /\ c.month = Any /\ c.dayWeek = Any

TypedCrons == [minute : {{n} : n \in Times}, hour : FieldOf(Times),
               dayMonth : {Any, Step}, month : {Any}, dayWeek : {Any}]

AtMostOne(field) == \A m, n \in field : m = n

\* validateCronForRecurrrence
Supported(c) ==
    /\ \A f \in DOMAIN c : c[f] # Step
    /\ AtMostOne(c.minute) /\ AtMostOne(c.hour)
    /\ (c.minute # Any /\ c.hour # Any) \/ IsHourly(c)
    /\ ~((c.dayMonth # Any \/ c.month # Any) /\ c.dayWeek # Any)

\* Broken variant: days of the month are looked at alone.
PolicyByDay(c) ==
    CASE ~Supported(c) -> "cron"
      [] Supported(c) /\ c.dayMonth # Any -> "monthly"
      [] Supported(c) /\ c.dayMonth = Any /\ c.dayWeek # Any -> "weekly"
      [] Supported(c) /\ c.dayMonth = Any /\ c.dayWeek = Any ->
             IF c.hour = Any THEN "hourly" ELSE "daily"

Policy(c) ==
    IF ~Supported(c) THEN "cron"
    ELSE IF c.dayMonth # Any /\ c.month # Any THEN "yearly"
    ELSE IF c.dayMonth # Any THEN "monthly"
    ELSE IF c.dayWeek # Any THEN "weekly"
    ELSE IF c.hour = Any THEN "hourly"
    ELSE "daily"

NoDays == [dayMonth |-> Any, month |-> Any, dayWeek |-> Any]

\* The cron of a form of another kind is never read.
NoCron == [minute |-> Any, hour |-> Any, dayMonth |-> Any, month |-> Any,
           dayWeek |-> Any]

\* What a form with days missing has for a cron: no cron at all, or one with an
\* empty field.  It stands for those that the server does not accept.
Malformed == [minute |-> Step, hour |-> Step, dayMonth |-> Step, month |-> Step,
              dayWeek |-> Step]

Keys(policy) == CASE policy = "yearly" -> {"dayMonth", "month"}
                  [] policy = "monthly" -> {"dayMonth"}
                  [] policy = "weekly" -> {"dayWeek"}
                  [] OTHER -> {}

DaysOf(c, policy) ==
    [f \in DOMAIN NoDays |-> IF f \in Keys(policy) THEN c[f] ELSE Any]

Number(field) == CHOOSE n \in field : TRUE

\* cronToRecurrence
ToRecurrence(c) ==
    LET policy == Policy(c)
    IN  [recurrence |-> policy, cron |-> IF policy = "cron" THEN c ELSE NoCron,
         on |-> DaysOf(c, policy),
         minute |-> IF policy = "cron" THEN 0 ELSE Number(c.minute),
         hour |-> IF policy \in {"cron", "hourly"} THEN 0 ELSE Number(c.hour)]

\* recurrenceToCron
ToCron(r) ==
    IF r.recurrence = "cron" THEN r.cron
    ELSE [minute |-> {r.minute},
          hour |-> IF r.recurrence = "hourly" THEN Any ELSE {r.hour},
          dayMonth |-> DaysOf(r.on, r.recurrence).dayMonth,
          month |-> DaysOf(r.on, r.recurrence).month,
          dayWeek |-> DaysOf(r.on, r.recurrence).dayWeek]

\* recurrenceOnYup
Valid(r) == \A f \in Keys(r.recurrence) : r.on[f] # Any

-----------------------------------------------------------------------------
(* The form *)

Init ==
    /\ cron \in SomeCrons
    /\ form = None
    /\ touched = FALSE

Open ==
    /\ form = None
    /\ form' = ToRecurrence(cron)
    /\ touched' = FALSE
    /\ UNCHANGED cron

Edit(r) ==
    /\ form # None
    /\ form' = r
    /\ touched' = TRUE
    /\ UNCHANGED cron

\* A tab of the editor: the days are cleared, and a cron starts as that of the
\* form.
SelectRecurrence(policy) ==
    /\ form.recurrence # policy
    /\ Edit([form EXCEPT !.recurrence = policy,
                         !.on = NoDays,
                         !.cron = IF policy # "cron" THEN NoCron
                                  ELSE IF Valid(form) THEN ToCron(form) ELSE Malformed])

PickTime(m, h) ==
    /\ form.recurrence # "cron"
    /\ Edit([form EXCEPT !.minute = m, !.hour = h])

PickDays(key, days) ==
    /\ key \in Keys(form.recurrence)
    /\ Edit([form EXCEPT !.on[key] = days])

TypeCron(c) ==
    /\ form.recurrence = "cron"
    /\ Edit([form EXCEPT !.cron = c])

\* recurrenceOnYup in the page, validate_cron at the server
Submit ==
    /\ form # None
    /\ Valid(form)
    /\ ToCron(form) # Malformed
    /\ cron' = ToCron(form)
    /\ form' = None
    /\ touched' = FALSE

Next ==
    \/ Open \/ Submit
    \/ /\ form # None
       /\ \/ \E p \in {"hourly", "daily", "weekly", "monthly", "yearly", "cron"} :
                SelectRecurrence(p)
          \/ \E m, h \in Times : PickTime(m, h)
          \/ \E key \in DOMAIN NoDays, days \in SUBSET Days : PickDays(key, days)
          \/ \E c \in TypedCrons : TypeCron(c)

Spec == Init /\ [][Next]_evars

-----------------------------------------------------------------------------

\* What the editor shows is what is saved: a schedule that is opened and
\* submitted stays as it was, and one that was edited opens again as it was
\* left.  The exception is a cron with months and no days of the month, which
\* the editor takes for a daily one.
EditorKeepsTheSchedule ==
    form # None =>
        /\ \/ touched
           \/ cron.month # Any /\ cron.dayMonth = Any
           \/ ToCron(form) = cron
        /\ Valid(form) /\ form.recurrence # "cron" =>
              LET again == ToRecurrence(ToCron(form))
              IN  /\ again.recurrence = form.recurrence
                  /\ again.on = form.on
                  /\ again.minute = form.minute
                  /\ again.hour = form.hour \/ form.recurrence = "hourly"

=============================================================================
