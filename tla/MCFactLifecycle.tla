-------------------------- MODULE MCFactLifecycle --------------------------
EXTENDS FactLifecycle, TLC

CONSTANTS stated, dreamt, subject

\* The dream pass derives dreamt, which says the same as stated.
MCHashOf    == stated :> 1 @@ dreamt :> 1
MCEndsOf    == stated :> {subject} @@ dreamt :> {subject}
MCValidFrom == stated :> 0 @@ dreamt :> 0
=============================================================================
