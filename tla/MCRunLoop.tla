----------------------------- MODULE MCRunLoop ------------------------------
(***************************************************************************)
(* The modes of RunLoop that do not keep what run.rs says of them.         *)
(***************************************************************************)
EXTENDS RunLoop

Mode(loop, backend, wakes) ==
    [loop |-> loop, backend |-> backend, wakes |-> wakes]

PortableServer == {Mode("server", "portable", "none")}

QuietClient == {Mode("client", "portable", "none")}

=============================================================================
