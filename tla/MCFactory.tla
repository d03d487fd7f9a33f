------------------------------- MODULE MCFactory -------------------------------
(* The template factory with two builds. *)
EXTENDS Factory, TLC

\* Bounds: one status at a time is not written, and with it, or with a supersede that
\* failed, there are two builds and the users only start them, or one build and they
\* do one thing less.  Of the searches for a template that is there only the last fails.
Fewer == admin.left = MaxActs \/ (admin.left > 0 /\ call[2].at = "idle")
Repeats == engine'.attempt > engine.attempt => ByName(call[engine.build].name, rows) = {}
MCNext == Next /\ Repeats /\ (unwritten' # {} \/ cut' => Fewer') /\ Cardinality(unwritten') <= 1
MCSpec == Init /\ [][MCNext]_vars /\ Fairness
=============================================================================
