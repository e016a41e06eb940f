----------------------------- MODULE MCGreeter -----------------------------
(* Instances of Greeter for TLC. *)
EXTENDS Greeter

Account(name, uid, home, shell) == [name |-> name, uid |-> uid, home |-> home, shell |-> shell]

Amy  == Account("amy", 1000, "home", "login")
Bob  == Account("bob", 59999, "home", "")
Cat  == Account("cat", 1001, "home", "login")
Dan  == Account("dan", 1002, "home", "login")
System == <<Account("svc", 999, "home", "login"), Account("net", 1003, "home", "nologin"),
            Account("ftp", 1004, "home", "false"), Account("web", 1005, "other", "login"),
            Account("big", 60000, "home", "login")>>

AllNames == {"amy", "bob", "cat", "dan", "svc", "net", "ftp", "web", "big"}
DanIsLong == {"dan"}

(* No user at all, two users, and more users than the menu has rows. *)
Editions == {System, System \o <<Amy, Bob>>, <<Dan, Cat, Bob, Amy>>}

(* The first of three accounts is removed. *)
AmyLeaves == {<<Amy, Bob, Cat>>, <<Bob, Cat>>}

TwoUsers == {<<Amy, Bob>>}

=============================================================================
