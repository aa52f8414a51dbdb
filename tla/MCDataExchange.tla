--------------------------- MODULE MCDataExchange ---------------------------
(* DataExchange with one list of each kind there is: guarded items, several *)
(* keys, fields of selectors that items do not have, no partial updates,    *)
(* and selectors that are not found.                                        *)
EXTENDS DataExchange
=============================================================================
