--------------------------- MODULE PerformanceDay ---------------------------
(***************************************************************************)
(* The objects a house keeps for the day of a performance: its readiness   *)
(* board, call sheet, audit trail, schedule, rights ledger, box office and  *)
(* cue sheet.                                                              *)
(*                                                                         *)
(* None of them calls another and they share no state (each is an object   *)
(* of its own in one process), so what holds of one holds of all of them   *)
(* together: a behaviour is one of the objects at work, the others at      *)
(* rest, instead of every interleaving of steps that do not meet.          *)
(***************************************************************************)
EXTENDS ReadinessBoard, CallSheet, AuditTrail, Scheduling, RightsLedger, BoxOffice,
        CueSheet

VARIABLE atWork   \* the object whose calls are made

dayVars == <<vars, sheetVars, auditVars, schedVars, rightsVars, boxVars,
             cueSheetVars, atWork>>

DayInit ==
    /\ Init /\ SheetInit /\ AuditInit /\ SchedInit /\ RightsInit /\ BoxInit
    /\ CueSheetInit
    /\ atWork \in {"readiness", "call sheet", "audit", "schedule", "rights", "box office",
                   "cue sheet"}

DayNext ==
    \/ /\ atWork = "readiness" /\ Next
       /\ UNCHANGED <<sheetVars, auditVars, schedVars, rightsVars, boxVars, cueSheetVars, atWork>>
    \/ /\ atWork = "call sheet" /\ SheetNext
       /\ UNCHANGED <<vars, auditVars, schedVars, rightsVars, boxVars, cueSheetVars, atWork>>
    \/ /\ atWork = "audit" /\ AuditNext
       /\ UNCHANGED <<vars, sheetVars, schedVars, rightsVars, boxVars, cueSheetVars, atWork>>
    \/ /\ atWork = "schedule" /\ SchedNext
       /\ UNCHANGED <<vars, sheetVars, auditVars, rightsVars, boxVars, cueSheetVars, atWork>>
    \/ /\ atWork = "rights" /\ RightsNext
       /\ UNCHANGED <<vars, sheetVars, auditVars, schedVars, boxVars, cueSheetVars, atWork>>
    \/ /\ atWork = "box office" /\ BoxNext
       /\ UNCHANGED <<vars, sheetVars, auditVars, schedVars, rightsVars, cueSheetVars, atWork>>
    \/ /\ atWork = "cue sheet" /\ CueSheetNext
       /\ UNCHANGED <<vars, sheetVars, auditVars, schedVars, rightsVars, boxVars, atWork>>

DaySpec == DayInit /\ [][DayNext]_dayVars

\* What is computed when a ledger is read is what its records say: settlement, band
\* sales and tender totals, exposure, replay, free time and dependency order.
ReadsAreTrue ==
    /\ BooksBalance
    /\ ExposureIsComplete
    /\ ReplayFindsLastEffect
    /\ FreeTimeIsTrue
    /\ ValidSheetsHaveAnOrder
=============================================================================
