------------------------------ MODULE MCConsole ------------------------------
(* Settings that are good, refused, and the death of the process.              *)
EXTENDS Console

CONSTANT rphost

MCName == {rphost}
MCContents == {NotJson, Content("object", TRUE, 10, 10, {}), Content("object", TRUE, 0, 10, {})}
=============================================================================
