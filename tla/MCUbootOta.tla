----------------------------- MODULE MCUbootOta -----------------------------
(* UbootOta on a small instance: packages of two files.                    *)
EXTENDS UbootOta

CONSTANTS a, b

\* Nothing; what a cut in the middle of a copy or of a request leaves; a package that
\* holds no file the boot partition lacks; one that did not boot.
FoundDirs == {EmptyDir, [f \in Files |-> <<a>>], [EmptyDir EXCEPT ![1] = <<a, a>>],
              [f \in Files |-> <<a, a>>]}
FoundDef  == [fw : FoundDirs, flag : BOOLEAN, boot : {EmptyDir}]
=============================================================================
