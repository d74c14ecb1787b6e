---------------------------- MODULE MCVoicemailMail ----------------------------
(* VoicemailMail with two messages in one box, and a listener who deletes one
   while a pass mails the other. *)
EXTENDS VoicemailMail, TLC

MCMsgs == {"m1", "m2"}
MCBacklog == {}
MCBoxes == {"family"}
MCLeft == ("m1" :> 1 @@ "m2" :> 1)
MCConf == <<>>
MCMailTo == {"house"}
MCRuns == {"r"}
MCWindow == 0
MCDays == 1
MCMaxTime == 2
MCMaxMishaps == 0
=============================================================================
