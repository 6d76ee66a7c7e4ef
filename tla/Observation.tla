----------------------------- MODULE Observation -----------------------------
(***************************************************************************)
(* The incident-free observation window of a GA programme, the incidents   *)
(* that restart it (support tickets, service incidents, pilot incidents)   *)
(* and the go/no-go report that waits for it: services/commercial/         *)
(* operations.py and ga.py.                                                *)
(*                                                                         *)
(* Incidents are the P0, P1, critical and major ones; a request is one     *)
(* step.  The report's other conditions (gates, pilot, subscription,       *)
(* onboardings, documents, penetration test) are taken as met.             *)
(***************************************************************************)
EXTENDS Naturals, FiniteSets

CONSTANTS
    Incidents,   \* bound: incidents
    Days,        \* the window lengths start may ask for
    WindowDays,  \* the 30 days of a restarted window
    MaxTime      \* bound: days

VARIABLES
    now,        \* the current day
    incident,   \* SupportTicket, ServiceStatusIncident and PilotIncident rows
    window,     \* the ObservationWindow row that is OBSERVING
    completed   \* some ObservationWindow row is COMPLETED

vars == <<now, incident, window, completed>>

------------------------------------------------------------------------------
(* Rows                                                                     *)

TicketStatus == {"OPEN", "IN_PROGRESS", "WAITING_CUSTOMER", "RESOLVED", "CLOSED"}
StatusStatus == {"INVESTIGATING", "IDENTIFIED", "MONITORING", "RESOLVED"}
NoIncident == [kind |-> "none"]
NoWindow == [status |-> "NONE"]

Init ==
    /\ now = 0
    /\ incident = [i \in Incidents |-> NoIncident]
    /\ window = NoWindow
    /\ completed = FALSE

Raised == {i \in Incidents : incident[i] # NoIncident}

IsOpen(i) == incident[i].status \notin {"RESOLVED", "CLOSED"}

Observing == window # NoWindow

------------------------------------------------------------------------------
(* Incidents                                                                *)

InitialStatus(kind) == IF kind = "status" THEN "INVESTIGATING" ELSE "OPEN"

Raise(i, kind) ==
    /\ incident[i] = NoIncident
    /\ incident' = [incident EXCEPT
                      ![i] = [kind |-> kind, at |-> now, status |-> InitialStatus(kind)]]
    /\ UNCHANGED <<now, window, completed>>

TICKET_TRANSITIONS ==
    [t \in TicketStatus |->
        CASE t = "OPEN" -> {"IN_PROGRESS", "WAITING_CUSTOMER", "RESOLVED"}
          [] t = "IN_PROGRESS" -> {"WAITING_CUSTOMER", "RESOLVED"}
          [] t = "WAITING_CUSTOMER" -> {"IN_PROGRESS", "RESOLVED"}
          [] t = "RESOLVED" -> {"CLOSED"}
          [] OTHER -> {}]

STATUS_TRANSITIONS ==
    [t \in StatusStatus |->
        CASE t = "INVESTIGATING" -> {"IDENTIFIED", "MONITORING", "RESOLVED"}
          [] t = "IDENTIFIED" -> {"MONITORING", "RESOLVED"}
          [] t = "MONITORING" -> {"RESOLVED"}
          [] OTHER -> {}]

Update(i, allowed, to) ==
    /\ to \in allowed
    /\ incident' = [incident EXCEPT ![i].status = to]
    /\ UNCHANGED <<now, window, completed>>

UpdateSupportTicket(i, to) ==
    /\ incident[i].kind = "support"
    /\ Update(i, TICKET_TRANSITIONS[incident[i].status], to)

UpdateStatusIncident(i, to) ==
    /\ incident[i].kind = "status"
    /\ Update(i, STATUS_TRANSITIONS[incident[i].status], to)

ResolveIncident(i) == incident[i].kind = "pilot" /\ Update(i, {"RESOLVED"}, "RESOLVED")

------------------------------------------------------------------------------
(* The window                                                               *)

(* A window that is OBSERVING is returned as it is.                         *)
StartObservationWindow(days) ==
    /\ ~Observing
    /\ window' = [status |-> "OBSERVING", start |-> now, end |-> now + days, count |-> 0]
    /\ UNCHANGED <<now, incident, completed>>

CriticalIn(w) == {i \in Raised : incident[i].at >= w.start /\ incident[i].at <= now}

CheckObservationWindow ==
    LET total == Cardinality(CriticalIn(window))
    IN /\ Observing
       /\ \/ /\ total > window.count
             /\ window' = [window EXCEPT !.count = total, !.start = now,
                                         !.end = now + WindowDays]
             /\ UNCHANGED completed
          \/ /\ total <= window.count
             /\ now >= window.end
             /\ window.count = 0
             /\ window' = NoWindow
             /\ completed' = TRUE
       /\ UNCHANGED <<now, incident>>

Tick == now < MaxTime /\ now' = now + 1 /\ UNCHANGED <<incident, window, completed>>

------------------------------------------------------------------------------
(* ga_go_no_go_report                                                       *)

GaGo == completed /\ \A i \in Raised : ~IsOpen(i)

Next ==
    \/ \E i \in Incidents, kind \in {"support", "status", "pilot"} : Raise(i, kind)
    \/ \E i \in Raised : \/ \E to \in TicketStatus : UpdateSupportTicket(i, to)
                         \/ \E to \in StatusStatus : UpdateStatusIncident(i, to)
                         \/ ResolveIncident(i)
    \/ \E days \in Days : StartObservationWindow(days)
    \/ CheckObservationWindow
    \/ Tick

(* Time passes, and the checker (observation_check.py, or the route) runs   *)
(* again and again.                                                         *)
Spec == Init /\ [][Next]_vars /\ WF_vars(Tick) /\ WF_vars(CheckObservationWindow)

------------------------------------------------------------------------------
(* Properties                                                               *)

(* The window has run its days with no incident since it (re)started.       *)
QuietDays == /\ Observing
             /\ now >= window.end
             /\ \A i \in Raised : ~IsOpen(i) /\ incident[i].at < window.start

(* check_observation_window: "Reset if found, complete if 30 days passed."  *)
(* A window whose days have passed without an incident, and with none open, *)
(* is completed and releases the programme, unless an incident intervenes.  *)
QuietDaysRelease == QuietDays ~> (GaGo \/ \E i \in Raised : IsOpen(i))
=============================================================================
