----------------------------- MODULE MCRelease -----------------------------
(* A release with each requirement on or off and each input right or wrong. *)
EXTENDS Release

Tasks == {"lint", "regression", "quartus", "hardware"}

\* One thing at a time is not as the release needs it.
Base == [valid |-> TRUE, ready |-> Tasks, report_dir |-> TRUE, output_rbf |-> TRUE,
         rbf_name |-> TRUE, require_mra |-> TRUE, require_rom_mapping |-> TRUE,
         require_provenance |-> TRUE, allow_unconstrained |-> FALSE,
         hardware_required |-> TRUE, allow_pending |-> TRUE]

SomeConfigs ==
    {[Base EXCEPT !.ready = r, !.require_mra = m, !.hardware_required = h, !.allow_pending = p] :
        r \in {Tasks} \cup {Tasks \ {t} : t \in Tasks}, m, h, p \in BOOLEAN}
    \cup {[Base EXCEPT !.valid = FALSE], [Base EXCEPT !.report_dir = FALSE],
          [Base EXCEPT !.output_rbf = FALSE], [Base EXCEPT !.rbf_name = FALSE],
          [Base EXCEPT !.require_rom_mapping = FALSE], [Base EXCEPT !.require_provenance = FALSE],
          [Base EXCEPT !.allow_unconstrained = TRUE]}

Clean == [commit |-> TRUE, licensed |-> TRUE, used |-> TRUE, reviewed |-> TRUE]
SomeDonors == {{}, {Clean}, {Clean, [Clean EXCEPT !.commit = FALSE]},
               {[Clean EXCEPT !.licensed = FALSE]}, {[Clean EXCEPT !.reviewed = FALSE]}}

Fits == [exists |-> TRUE, supported |-> TRUE, rbf |-> "own", duplicates |-> FALSE, usable |-> TRUE]
SomeMras == {{}, {Fits}, {Fits, [Fits EXCEPT !.rbf = "other"]}, {[Fits EXCEPT !.usable = FALSE]},
             {[Fits EXCEPT !.supported = FALSE]}, {[Fits EXCEPT !.duplicates = TRUE]},
             {[Fits EXCEPT !.exists = FALSE]}}

Good == [fresh |-> TRUE, errors |-> FALSE, slacks |-> <<"met">>, unconstrained |-> FALSE]
Stale == [Good EXCEPT !.fresh = FALSE]
Untimed == [Good EXCEPT !.slacks = <<>>]
Left == {<<>>, <<Stale>>}
Written == {<<>>, <<Good>>, <<[Untimed EXCEPT !.errors = TRUE], Good>>, <<Untimed>>,
            <<[Good EXCEPT !.slacks = <<"missed">>]>>, <<[Good EXCEPT !.unconstrained = TRUE]>>}
Corners == {<<[Good EXCEPT !.slacks = <<"met", "missed">>]>>}
=============================================================================
