----------------------------- MODULE MCRegistry -----------------------------
(***************************************************************************)
(* Instances of the registry: which calls meet which faults.               *)
(***************************************************************************)
EXTENDS RegistryService

Mode(faultSet, opSet, n) == [faults |-> faultSet, ops |-> opSet, calls |-> n]

ReadModes == {Mode({}, {"submit", "get", "list", "delete"}, 3)}

\* Readers beside a deletion, cancellations beside each other, every pair of
\* calls beside a shutdown, a power loss or a failed operation, and two faults
\* at once.
AllModes ==
    {Mode({}, {"submit", "list", "delete"}, 3),
     Mode({}, {"submit", "cancel"}, 3),
     Mode({"shutdown"}, {"submit", "get", "cancel", "delete"}, 2),
     Mode({"power"}, {"submit", "cancel", "delete"}, 2),
     Mode({"io"}, {"submit", "cancel", "delete"}, 2),
     Mode({"io", "shutdown"}, {"submit"}, 1),
     Mode({"io", "power"}, {"submit"}, 1)}
=============================================================================
