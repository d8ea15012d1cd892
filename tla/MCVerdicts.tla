----------------------------- MODULE MCVerdicts -----------------------------
(* Instances of Verdicts for TLC.                                          *)
EXTENDS Verdicts

Plain == [traits |-> {}, cert |-> "other", installer |-> "none",
          valid |-> TRUE, certRead |-> TRUE, yara |-> {}]

\* Scores on both sides of the thresholds, 10, 45 and 55, 60 and 105; a file
\* that Androguard cannot parse and one that only YARA knows; the official
\* certificate; an installer that is unknown, a trusted provenance that is
\* scanned every day and the one that is not.
MCApps ==
  {Plain,
   [Plain EXCEPT !.yara = {"dropper_payload"}],
   [Plain EXCEPT !.traits = {"spyware_combo"}],
   [Plain EXCEPT !.traits = {"spyware_combo"}, !.valid = FALSE,
                 !.certRead = FALSE],
   [Plain EXCEPT !.traits = {"spyware_combo"}, !.installer = "preinstalled"],
   [Plain EXCEPT !.traits = {"brand_in_label", "sms_exfiltration", "dropper"},
                 !.installer = "store"],
   [Plain EXCEPT !.traits = {"package_lookalike", "debuggable", "overlay",
                             "permission_hoarding"},
                 !.cert = "official", !.installer = "generic"]}

MCYaraRules == {"dropper_payload"}
MCYaraLevel == [y \in MCYaraRules |-> "HIGH"]
=============================================================================
