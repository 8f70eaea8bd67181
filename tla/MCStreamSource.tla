--------------------------- MODULE MCStreamSource ---------------------------
(***************************************************************************)
(* Instances of StreamSource for TLC.                                      *)
(***************************************************************************)
EXTENDS StreamSource, SequencesExt

MCKinds == {"claude", "gpt", "perplexity", "ollama", "gemini"}

\* Up to three events.  Claude's carry text or the usage, never both.
MCScripts ==
    [k \in MCKinds |->
        BoundedSeq(IF k = "claude" THEN {e \in Event : ~(e.text /\ e.usage)} ELSE Event, 3)]
=============================================================================
