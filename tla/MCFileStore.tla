----------------------------- MODULE MCFileStore ----------------------------
(* Pages of 2 units and chunks of 2 pages, entries shorter and longer than a   *)
(* page, so that entries share, fill and cross pages and chunks; a cache of    *)
(* two pages, so that pages collide.                                           *)
EXTENDS FileStore
=============================================================================
