------------------------------ MODULE MCJournal ------------------------------
(* Small instances of Journal: two jails with different windows. *)
EXTENDS Journal, TLC
MCFindTime == "ssh" :> 2 @@ "mail" :> 1
MCMaxRetries == "ssh" :> 3 @@ "mail" :> 2
MCBanTime == "ssh" :> 2 @@ "mail" :> 1
MCIgnored == {<<"mail", "b">>}
=============================================================================
