--------------------------- MODULE MCKumaProvision --------------------------
(***************************************************************************)
(* Three catalogs: the second moves `web` to another address, drops `mail` *)
(* and adds the host `nas`; the third only moves the host; `old` is in     *)
(* none of them and may be left from before.  With its address, `web` has  *)
(* left the host whose services are in the window.                         *)
(***************************************************************************)
EXTENDS KumaProvision

MCCatalog == <<
  [n \in Names |-> CASE n = "web" -> "a" [] n = "mail" -> "a" [] OTHER -> None],
  [n \in Names |-> CASE n = "web" -> "b" [] n = "nas" -> "a" [] OTHER -> None],
  [n \in Names |-> CASE n = "web" -> "b" [] n = "nas" -> "b" [] OTHER -> None]>>
MCListed ==
  [v \in Versions |-> [u \in Uses |->
     IF u = "page" THEN {"web", "nas"}
     ELSE IF v = 1 THEN {"web", "mail"} ELSE {}]]
=============================================================================
