---------------------------- MODULE MCTaskHealth ----------------------------
(***************************************************************************)
(* The clocks of the code and the templates, in units of half a minute: a  *)
(* duration is rounded to the nearest.  Of the retries there are two, not  *)
(* three, and the visibility timeout is the least that they allow.         *)
(***************************************************************************)
EXTENDS TaskHealth

Units(seconds) == (seconds + 15) \div 30

MCWait == Units(20)
MCBackoff == Units(5)
MCMaxAge == Units(60)
MCInterval == Units(30)
MCTimeout == Units(5)
MCStartPeriod == Units(20)
MCStopTimeout == Units(30)
MCVisibility == LongestBatch + 1
=============================================================================
