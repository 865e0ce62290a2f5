------------------------- MODULE MCIdentityIssuance -------------------------
(* IdentityIssuance with two accounts of one name and two of one namespace.  *)
EXTENDS IdentityIssuance
CONSTANTS shop, bank, web, db, p1, p2
MCAccounts == {[namespace |-> shop, name |-> web],
               [namespace |-> bank, name |-> web],
               [namespace |-> bank, name |-> db]}
MCWorkloads == {[sa |-> [namespace |-> shop, name |-> web], pod |-> p1],
                [sa |-> [namespace |-> bank, name |-> web], pod |-> p2],
                [sa |-> [namespace |-> bank, name |-> db], pod |-> None]}
=============================================================================
