---------------------------- MODULE SymbolTable ----------------------------
(***************************************************************************)
(* What linking promises about the names of functions: the one-definition  *)
(* rule.  Any number of modules may declare a name and at most one defines *)
(* it; the code of a defined name arrives once and stays.                  *)
(***************************************************************************)
EXTENDS Naturals

CONSTANTS Name

VARIABLES
  declared,   \* the names some module mentions
  defined,    \* the names some module defines
  code        \* the code of the names whose code has arrived

vars == <<declared, defined, code>>

Init ==
  /\ declared \subseteq Name
  /\ defined \subseteq declared
  /\ DOMAIN code = defined

Declare(n) ==
  /\ n \notin declared
  /\ declared' = declared \cup {n}
  /\ UNCHANGED <<defined, code>>

Define(n) ==
  /\ n \notin defined
  /\ declared' = declared \cup {n}
  /\ defined' = defined \cup {n}
  /\ UNCHANGED code

Install(n) ==
  /\ n \in defined \ DOMAIN code
  /\ DOMAIN code' = DOMAIN code \cup {n}
  /\ \A m \in DOMAIN code : code'[m] = code[m]
  /\ UNCHANGED <<declared, defined>>

Next == \E n \in Name : Declare(n) \/ Define(n) \/ Install(n)

Spec == Init /\ [][Next]_vars

=============================================================================
