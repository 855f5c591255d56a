------------------------------ MODULE MCAdminLogin ------------------------------
(* Two addresses with room for one idle bucket, and two logins at a time.       *)
EXTENDS AdminLogin, TLC

Interchangeable == Permutations(Workers) \cup Permutations(Ips)
================================================================================
