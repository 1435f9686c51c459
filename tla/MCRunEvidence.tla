---------------------------- MODULE MCRunEvidence ----------------------------
(* Two packages, of which the one that `demo all` comes to last is edited (its
   other dataset manifest declares several streams), and
   two commands, so that a rerun meets what an earlier command left and a
   container that outlived its client. *)
EXTENDS EvidenceProperties

MCPackageOrder == <<"o", "p">>
MCInvocations ==
    {[command |-> "run", targets |-> <<"p">>, attested |-> FALSE],
     [command |-> "sandbox", targets |-> <<"p">>, attested |-> TRUE],
     [command |-> "demo", targets |-> MCPackageOrder, attested |-> TRUE]}
MCOneStream == {<<"o", "a">>, <<"p", "a">>}
MCEditable == {"p"} \X Parts
==============================================================================
