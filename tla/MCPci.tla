------------------------------- MODULE MCPci -------------------------------
(* Machines with up to three buses, of which any part may be missing.      *)
EXTENDS Pci

\* 0:1.1 is a bridge to bus 1, 1:0.0 one to bus 2, 0:2.0 one to bus 3.
Behind(f) == CASE f = <<0, 1, 1>> -> 1
               [] f = <<1, 0, 0>> -> 2
               [] f = <<0, 2, 0>> -> 3
               [] OTHER           -> None

Parts == {<<0, 1, 0>>, <<0, 1, 1>>, <<0, 1, 2>>, <<0, 2, 0>>, <<1, 0, 0>>,
          <<1, 1, 0>>, <<2, 0, 0>>, <<3, 2, 0>>}

MCTopologies ==
  {[behind |-> [f \in parts \cup {<<0, 0, 0>>} |-> Behind(f)], multi |-> multi] :
     parts \in SUBSET Parts, multi \in SUBSET {<<0, 0>>, <<0, 1>>}}
    \cup {[behind |-> [f \in {} |-> None], multi |-> {}]}
=============================================================================
