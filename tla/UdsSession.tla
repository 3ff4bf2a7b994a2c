------------------------------ MODULE UdsSession ------------------------------
(***************************************************************************)
(* The diagnostic session context (uds_session): which session is active,  *)
(* its timing parameters, and what uds_session_switch says has become of   *)
(* the configured events and of security.                                  *)
(***************************************************************************)

VARIABLES current_session, params, events_paused, security_locked

sessionVars == <<current_session, params, events_paused, security_locked>>

Sessions == {"DEFAULT", "PROGRAMMING", "EXTENDED"}

\* Mutated form of Params: the unit of the table's other column.
ParamsScaled(s) == IF s = "DEFAULT" THEN 50 ELSE 500

\* session_params_table, as P2Server_max in ms; P2*Server_max is the same in all.
Params(s) == IF s = "DEFAULT" THEN 50 ELSE 5000

\* uds_session_init
SessionInit ==
  /\ current_session = "DEFAULT"
  /\ params = Params("DEFAULT")
  /\ events_paused = FALSE
  /\ security_locked = TRUE

\* uds_session_switch to a supported session; asking for the active one changes
\* nothing but its parameters.
Resume(s) ==
  /\ s = current_session
  /\ params' = Params(s)
  /\ UNCHANGED <<current_session, events_paused, security_locked>>

\* Mutated form of Change: the timing of the session left stays.
ChangeStale(s) ==
  /\ s # current_session
  /\ current_session' = s
  /\ events_paused' = (s # "DEFAULT")
  /\ security_locked' = IF current_session = "DEFAULT" THEN security_locked ELSE TRUE
  /\ UNCHANGED params

Change(s) ==
  /\ s # current_session
  /\ current_session' = s
  /\ params' = Params(s)
  /\ events_paused' = (s # "DEFAULT")
  /\ security_locked' = IF current_session = "DEFAULT" THEN security_locked ELSE TRUE

Switch(s) == Resume(s) \/ Change(s)
=============================================================================
