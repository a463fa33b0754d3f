------------------------------- MODULE MCFleet ------------------------------
\* A StatefulSet that the Model names is deployed later, before or after the Model has
\* an Entity for its replica.
EXTENDS Fleet

MCExisting == {Absent, 1}
=============================================================================
