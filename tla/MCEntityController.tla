------------------------- MODULE MCEntityController -------------------------
EXTENDS EntityController

\* A robot with its own secret, and a privileged one that gets a certificate.
MCSpecs == {[privileged |-> FALSE, bare |-> FALSE], [privileged |-> TRUE, bare |-> TRUE]}
=============================================================================
