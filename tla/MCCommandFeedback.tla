-------------------------- MODULE MCCommandFeedback --------------------------
(* One channel of a blind with two fields; a command for the position, one  *)
(* for both, and a command of another controller for the angle.             *)
EXTENDS CommandFeedback

MCFields    == {"position", "angle"}
MCCommands  == {"move", "both"}
MCForeign   == {"tilt"}
MCFieldsOf  == [t \in MCCommands \cup MCForeign |->
                   CASE t = "move" -> {"position"}
                     [] t = "both" -> {"position", "angle"}
                     [] t = "tilt" -> {"angle"}]
MCSignature == [t \in MCCommands \cup MCForeign |-> t]
==============================================================================
