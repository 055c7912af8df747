------------------------------- MODULE MCScrape -------------------------------
(* One user is in the list and in the messages of one group; the other     *)
(* group shows nobody, and the other user is a stranger to both.           *)
EXTENDS Scrape, TLC
CONSTANTS u1, u2, g1, g2
MCListed == (g1 :> {u1}) @@ (g2 :> {})
MCHeard  == (g1 :> {u1}) @@ (g2 :> {})
==============================================================================
