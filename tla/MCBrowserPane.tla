---------------------------- MODULE MCBrowserPane ----------------------------
(* Two threads on one server, a third on another when several are configured. *)
EXTENDS BrowserPane
MCHome == [th \in {1, 2, 3} |-> IF th = 3 THEN "side" ELSE "main"]
MCDeeds == [several \in BOOLEAN |-> IF several THEN 2 ELSE 3]
=============================================================================
