------------------------------- MODULE UdsComm -------------------------------
(***************************************************************************)
(* The services that keep nothing: CommunicationControl, TesterPresent,    *)
(* ControlDTCSetting and LinkControl (uds_svc_diagcomm), Authentication    *)
(* (uds_svc_auth, whose state never leaves AUTH_STATE_NONE) and            *)
(* SecuredDataTransmission (a stub).  Each definition is the NRC of the    *)
(* first check that fails, "NONE" if the answer is positive.               *)
(***************************************************************************)
EXTENDS Naturals

\* 0x28: the communication type comes before the subfunction is looked at, and
\* is judged after it.
CommunicationControlRefusal(control_type, complete, comm_type) ==
  IF ~complete THEN "IMLOIF"
  ELSE IF control_type > 3 THEN "SFNS"
  ELSE IF comm_type \notin 1 .. 3 THEN "ROOR"
  ELSE "NONE"

\* 0x3E accepts any subfunction.
TesterPresentRefusal(has_data) == IF has_data THEN "IMLOIF" ELSE "NONE"

\* 0x85
ControlDtcSettingRefusal(unlocked_arg, setting) ==
  IF ~unlocked_arg THEN "SAD"
  ELSE IF setting \notin {1, 2} THEN "SFNS"
  ELSE "NONE"

\* 0x87: verifyBaudrateTransition takes three bytes, transitionBaudrate none.
LinkControlRefusal(subfn, bytes) ==
  IF subfn \notin {1, 2} THEN "SFNS"
  ELSE IF (subfn = 1 /\ bytes < 3) \/ (subfn = 2 /\ bytes # 0) THEN "IMLOIF"
  ELSE "NONE"

AuthSubfunctions == {"CONFIGURATION", "DE_AUTHENTICATE", "PKI"}

\* 0x29: what needs certificates is refused.
AuthenticationRefusal(session, subfn, has_data) ==
  IF session = "DEFAULT" THEN "CNC"
  ELSE IF subfn \notin AuthSubfunctions THEN "SFNS"
  ELSE IF subfn = "PKI" THEN "AR"
  ELSE IF has_data THEN "IMLOIF"
  ELSE "NONE"

\* 0x84
SecuredDataRefusal == "SAD"

CommSids ==
  {"COMMUNICATION_CONTROL", "TESTER_PRESENT", "SECURED_DATA_TRANSMISSION",
   "CONTROL_DTC_SETTING", "LINK_CONTROL", "AUTHENTICATION"}

\* Every answer such a service may give in a session, to a tester for whom the
\* flag has the given value.
CommAnswers(sid, session, unlocked_arg) ==
  CASE sid = "COMMUNICATION_CONTROL" ->
         {CommunicationControlRefusal(c, complete, t) :
            c \in {0, 3, 4}, complete \in BOOLEAN, t \in {0, 1, 3, 4}}
    [] sid = "TESTER_PRESENT" -> {TesterPresentRefusal(has_data) : has_data \in BOOLEAN}
    [] sid = "SECURED_DATA_TRANSMISSION" -> {SecuredDataRefusal}
    [] sid = "CONTROL_DTC_SETTING" -> {ControlDtcSettingRefusal(unlocked_arg, s) : s \in 0 .. 3}
    [] sid = "LINK_CONTROL" -> {LinkControlRefusal(f, n) : f \in 0 .. 3, n \in {0, 2, 3}}
    [] sid = "AUTHENTICATION" ->
         {AuthenticationRefusal(session, f, has_data) :
            f \in AuthSubfunctions \cup {"OTHER"}, has_data \in BOOLEAN}
=============================================================================
