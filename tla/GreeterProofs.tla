--------------------------- MODULE GreeterProofs ---------------------------
(***************************************************************************)
(* Proofs about Greeter and GreeterAuth, for every account database, every *)
(* sequence of keys and every length of the user list.                     *)
(***************************************************************************)
EXTENDS Greeter, SequenceTheorems, WellFoundedInduction, TLAPS

(* The type invariant holds together with the selection's range: attempting *)
(* a login indexes the list, and sends a name only because the selection    *)
(* exists.                                                                  *)
TypeInv ==
    /\ TypeOK
    /\ SelectionInRange
    /\ gpc = "write" => Count(ui) > 0

----------------------------------------------------------------------------
(* Data *)

(* The empty sequence, and the length of any. *)
LEMMA NoneType == \A S : <<>> \in Seq(S)
  OBVIOUS

LEMMA LenType == ASSUME NEW S, NEW s \in Seq(S) PROVE Len(s) \in Nat
  OBVIOUS

LEMMA PairType == ASSUME NEW S, NEW a \in S, NEW b \in S PROVE <<a, b>> \in Seq(S)
  OBVIOUS

LEMMA HeadTailType ==
    ASSUME NEW S, NEW s \in Seq(S), s # <<>>
    PROVE  Tail(s) \in Seq(S) /\ Head(s) \in S
  OBVIOUS

(* Dropping the last character. *)
LEMMA FrontType ==
    ASSUME NEW S, NEW s \in Seq(S), s # <<>>
    PROVE  SubSeq(s, 1, Len(s) - 1) \in Seq(S)
  OBVIOUS

(* The selected name is an account, once the index is in range. *)
LEMMA SelectedType ==
    ASSUME NEW u \in Ui
    PROVE  /\ Selected(u) \in Names \cup {NoName}
           /\ u.selected < Count(u) => Selected(u) \in Names
           /\ Count(u) \in Nat
  <1>1. u.users \in Seq(Entry) /\ u.selected \in Nat
    BY DEF Ui
  <1>2. ASSUME u.selected + 1 \in DOMAIN u.users
        PROVE  u.users[u.selected + 1].name \in Names
    <2>1. u.users[u.selected + 1] \in Entry
      BY <1>1, <1>2
    <2> QED
      BY <2>1 DEF Entry
  <1>3. u.selected < Count(u) => u.selected + 1 \in DOMAIN u.users
    BY <1>1 DEF Count
  <1> QED
    BY <1>1, <1>2, <1>3 DEF Selected, Count

(* Where draw_user_menu starts, for n users and a selection among them. *)
LEMMA RowsInList ==
    ASSUME NEW n \in Nat, NEW menu \in Nat, n = 0 => menu = 0, n > 0 => menu < n
    PROVE  /\ MenuRows(n, menu) \subseteq 0 .. (n - 1)
           /\ n > 0 => menu \in MenuRows(n, menu)
  BY DEF MenuRows, FirstRow, Visible, AtMost

LEMMA RowsType ==
    ASSUME NEW n \in Nat, NEW menu \in Nat
    PROVE  MenuRows(n, menu) \in SUBSET Nat
  BY DEF MenuRows, FirstRow, Visible, AtMost

LEMMA DotsType == ASSUME NEW n \in Nat PROVE AtMost(n, 12) \in 0 .. 12
  BY DEF AtMost

(* A painted frame is a frame. *)
LEMMA FrameType == ASSUME NEW u \in Ui PROVE draw_frame(u) \in Frame
  <1>1. /\ u.mode \in Modes
        /\ u.menu_selected \in Nat
        /\ u.power_selection \in 0 .. 2
        /\ u.password \in Password
        /\ u.message \in Messages
        /\ u.error \in BOOLEAN
    BY DEF Ui
  <1>2. Selected(u) \in Names \cup {NoName} /\ Count(u) \in Nat
    BY SelectedType
  <1>3. MenuRows(Count(u), u.menu_selected) \in SUBSET Nat
    BY <1>1, <1>2, RowsType
  <1>4. AtMost(Len(u.password), 12) \in 0 .. 12
    <2>1. Len(u.password) \in Nat
      BY <1>1, LenType DEF Password
    <2> QED
      BY <2>1, DotsType
  <1>5. (IF u.message = "" THEN "PAM AUTHENTICATION" ELSE u.message) \in Messages
    BY <1>1 DEF Messages
  <1>6. (IF u.mode = "UserMenu" THEN u.menu_selected
         ELSE IF u.mode = "PowerMenu" THEN u.power_selection ELSE 0) \in Nat
    BY <1>1
  <1>7. (IF u.mode = "UserMenu" THEN MenuRows(Count(u), u.menu_selected) ELSE {}) \in SUBSET Nat
    BY <1>3
  <1> QED
    BY <1>1, <1>2, <1>4, <1>5, <1>6, <1>7 DEF draw_frame, Frame

----------------------------------------------------------------------------
(* The account list *)

(* Induction over the naturals, as a statement about sets: the least number *)
(* outside of S would have a predecessor in S.                              *)
LEMMA Induction ==
    ASSUME NEW S, 0 \in S, \A n \in Nat : n \in S => n + 1 \in S
    PROVE  Nat \subseteq S
  <1> SUFFICES ASSUME Nat \ S # {} PROVE FALSE
    OBVIOUS
  <1>1. IsWellFoundedOn(OpToRel(<, Nat), Nat)
    BY NatLessThanWellFounded
  <1>2. PICK m \in Nat \ S : \A n \in Nat \ S : ~ (<<n, m>> \in OpToRel(<, Nat))
    <2>1. PICK T : T = Nat \ S
      OBVIOUS
    <2>2. T \subseteq Nat /\ T # {}
      BY <2>1
    <2>3. \E m \in T : \A n \in T : ~ (<<n, m>> \in OpToRel(<, Nat))
      BY <1>1, <2>2, WFMin
    <2> QED
      BY <2>1, <2>3
  <1>3. \A n \in Nat \ S : ~(n < m)
    BY <1>2 DEF OpToRel
  <1>4. m # 0 /\ m - 1 \in Nat /\ m - 1 < m
    OBVIOUS
  <1>5. m - 1 \in S
    BY <1>3, <1>4
  <1> QED
    BY <1>4, <1>5

(* Reading the account list gives entries: the recursive definition of      *)
(* login_capable_entries has a solution (by induction on the length of the  *)
(* prefix read so far), and every value of it is a list of entries (by the  *)
(* same induction).                                                         *)
LEMMA FilterType ==
    ASSUME NEW file \in Seq(Entry)
    PROVE  login_capable_entries(file) \in Seq(Entry)
  <1> DEFINE N == Len(file)
             Step(f, n) == IF n = 0 THEN <<>>
                           ELSE IF user_is_login_capable(file[n]) THEN Append(f[n - 1], file[n]) ELSE f[n - 1]
             kept[n \in 0 .. N] ==
               IF n = 0 THEN <<>>
               ELSE IF user_is_login_capable(file[n]) THEN Append(kept[n - 1], file[n]) ELSE kept[n - 1]
  <1>1. N \in Nat /\ \A n \in 1 .. N : file[n] \in Entry
    OBVIOUS
  <1> HIDE DEF N
  <1>2. \E f : f = [n \in 0 .. N |-> Step(f, n)]
    <2> DEFINE Upto(m) == \E f \in [0 .. m -> Seq(Entry)] : \A n \in 0 .. m : f[n] = Step(f, n)
               S == {m \in Nat : m <= N => Upto(m)}
    <2>1. Upto(0)
      <3>1. PICK f : f = [n \in 0 .. 0 |-> <<>>]
        OBVIOUS
      <3>2. <<>> \in Seq(Entry)
        OBVIOUS
      <3>3. f \in [0 .. 0 -> Seq(Entry)] /\ \A n \in 0 .. 0 : f[n] = Step(f, n)
        BY <3>1, <3>2
      <3> QED
        BY <3>3
    <2>2. ASSUME NEW m \in Nat, m + 1 <= N, Upto(m) PROVE Upto(m + 1)
      <3>1. PICK g \in [0 .. m -> Seq(Entry)] : \A n \in 0 .. m : g[n] = Step(g, n)
        BY <2>2
      <3>2. Step(g, m + 1) \in Seq(Entry)
        <4>1. g[m] \in Seq(Entry) /\ file[m + 1] \in Entry /\ (m + 1) - 1 = m
          BY <1>1, <2>2, <3>1
        <4> QED
          BY <4>1
      <3>3. PICK x \in Seq(Entry) : x = Step(g, m + 1)
        BY <3>2
      <3>4. PICK f : f = [n \in 0 .. m + 1 |-> IF n = m + 1 THEN x ELSE g[n]]
        OBVIOUS
      <3>5. f \in [0 .. m + 1 -> Seq(Entry)]
        BY <3>4
      <3>6. ASSUME NEW n \in 0 .. m + 1 PROVE f[n] = Step(f, n)
        <4>1. n # 0 => n - 1 \in 0 .. m /\ f[n - 1] = g[n - 1]
          BY <3>4
        <4>2. Step(f, n) = Step(g, n)
          BY <4>1
        <4>3. CASE n = m + 1
          BY <3>3, <3>4, <4>2, <4>3
        <4>4. CASE n \in 0 .. m
          <5>1. f[n] = g[n]
            BY <3>4, <4>4
          <5> HIDE DEF Step
          <5> QED
            BY <3>1, <4>2, <4>4, <5>1
        <4> QED
          BY <4>3, <4>4
      <3> QED
        BY <3>5, <3>6
    <2>3. Upto(N)
      <3> HIDE DEF Upto
      <3>1. 0 \in S /\ \A m \in Nat : m \in S => m + 1 \in S
        BY <1>1, <2>1, <2>2
      <3> HIDE DEF S
      <3>2. N \in S
        BY <1>1, <3>1, Induction
      <3> QED
        BY <1>1, <3>2 DEF S
    <2>4. PICK f \in [0 .. N -> Seq(Entry)] : \A n \in 0 .. N : f[n] = Step(f, n)
      BY <2>3
    <2>5. f = [n \in 0 .. N |-> Step(f, n)]
      BY <2>4
    <2> QED
      BY <2>5
  <1>3. kept = [n \in 0 .. N |-> Step(kept, n)]
    BY <1>2
  <1>4. login_capable_entries(file) = kept[N]
    BY DEF login_capable_entries, N
  <1> HIDE DEF kept
  <1>5. \A n \in 0 .. N : kept[n] = Step(kept, n)
    BY <1>3
  <1>6. N \in {m \in Nat : m <= N => kept[m] \in Seq(Entry)}
    <2> DEFINE S == {m \in Nat : m <= N => kept[m] \in Seq(Entry)}
    <2>1. 0 \in S
      <3>1. kept[0] = <<>> /\ <<>> \in Seq(Entry)
        BY <1>1, <1>5
      <3> QED
        BY <3>1
    <2>2. ASSUME NEW m \in Nat, m \in S PROVE m + 1 \in S
      <3> SUFFICES ASSUME m + 1 <= N PROVE kept[m + 1] \in Seq(Entry)
        OBVIOUS
      <3>1. kept[m] \in Seq(Entry) /\ file[m + 1] \in Entry /\ (m + 1) - 1 = m
        BY <1>1, <2>2
      <3>2. kept[m + 1] = Step(kept, m + 1)
        BY <1>1, <1>5
      <3> QED
        BY <3>1, <3>2
    <2> QED
      BY <1>1, <2>1, <2>2, Induction
  <1> QED
    BY <1>1, <1>4, <1>6

LEMMA LoadType == passwd \in PasswdFiles => load_users \in Seq(Entry)
  BY PasswdAssumption, FilterType DEF load_users

----------------------------------------------------------------------------
(* Initial states *)

LEMMA TypeInit == Init => TypeInv
  <1> SUFFICES ASSUME Init PROVE TypeInv
    OBVIOUS
  <1>1. passwd \in PasswdFiles /\ load_users \in Seq(Entry)
    BY LoadType DEF Init, AuthInit
  <1>2. ui \in Ui
    <2>1. <<>> \in Password
      BY NoneType DEF Password
    <2>2. "Login" \in Modes /\ "PAM AUTHENTICATION" \in Messages
      BY DEF Modes, Messages
    <2>3. ui = [mode |-> "Login", users |-> load_users, selected |-> 0, menu_selected |-> 0,
                power_selection |-> 2, password |-> <<>>, message |-> "PAM AUTHENTICATION",
                error |-> FALSE]
      BY DEF Init
    <2>4. 0 \in Nat /\ 2 \in 0 .. 2 /\ FALSE \in BOOLEAN
      OBVIOUS
    <2> QED
      BY <1>1, <2>1, <2>2, <2>3, <2>4, Zenon DEF Ui
  <1>3. AuthTypeOK
    BY <1>1, NoneType DEF Init, AuthInit, AuthTypeOK, NoName, Responses
  <1>4. wire \in Seq(Event)
    <2>1. [Ev("keymap") EXCEPT !.n = 1] \in Event /\ Ev("configure") \in Event
      BY DEF Ev, Event, EventKinds, Syms
    <2> QED
      BY <2>1, PairType DEF Init
  <1>5. screen \in Frame
    <2>1. NoFrame \in Frame
      BY DEF NoFrame, Frame, Modes, Messages
    <2> QED
      BY <2>1 DEF Init
  <1>6. TypeOK
    BY <1>2, <1>3, <1>4, <1>5 DEF Init, TypeOK, Buffers
  <1>7. SelectionInRange
    <2>1. Count(ui) \in Nat
      BY <1>2, SelectedType
    <2> QED
      BY <2>1 DEF Init, SelectionInRange
  <1> QED
    BY <1>6, <1>7 DEF TypeInv, Init

----------------------------------------------------------------------------
(* What the keys do to the dialog *)

(* A dialog whose selections are users of its list. *)
GoodUi(u) ==
    /\ u \in Ui
    /\ Count(u) = 0 => u.selected = 0 /\ u.menu_selected = 0
    /\ Count(u) > 0 => u.selected < Count(u) /\ u.menu_selected < Count(u)

LEMMA GoodNow == TypeInv => GoodUi(ui)
  BY DEF TypeInv, TypeOK, SelectionInRange, GoodUi

(* A change that spares the list and the selections. *)
LEMMA SameSelection ==
    ASSUME NEW u, GoodUi(u), NEW v \in Ui,
           v.users = u.users, v.selected = u.selected, v.menu_selected = u.menu_selected
    PROVE  GoodUi(v) /\ Count(v) = Count(u)
  BY DEF GoodUi, Count

LEMMA GoodMode ==
    ASSUME NEW u, GoodUi(u), NEW m \in Modes
    PROVE  GoodUi([u EXCEPT !.mode = m])
  <1>1. [u EXCEPT !.mode = m] \in Ui
    BY DEF GoodUi, Ui
  <1> QED
    BY <1>1, SameSelection DEF GoodUi, Ui

LEMMA GoodMessage ==
    ASSUME NEW u, GoodUi(u), NEW s \in Messages, NEW e \in BOOLEAN
    PROVE  GoodUi([u EXCEPT !.message = s, !.error = e])
  <1>1. [u EXCEPT !.message = s, !.error = e] \in Ui
    BY DEF GoodUi, Ui
  <1> QED
    BY <1>1, SameSelection DEF GoodUi, Ui

LEMMA GoodAttempt ==
    ASSUME NEW u, GoodUi(u), NEW m \in Modes, NEW s \in Messages, NEW e \in BOOLEAN
    PROVE  /\ GoodUi([u EXCEPT !.mode = m, !.message = s, !.error = e])
           /\ Count([u EXCEPT !.mode = m, !.message = s, !.error = e]) = Count(u)
  <1>1. [u EXCEPT !.mode = m, !.message = s, !.error = e] \in Ui
    BY DEF GoodUi, Ui
  <1> QED
    BY <1>1, SameSelection DEF GoodUi, Ui

LEMMA GoodOutcome ==
    ASSUME NEW u, GoodUi(u), NEW m \in Modes, NEW s \in Messages, NEW e \in BOOLEAN
    PROVE  GoodUi([u EXCEPT !.mode = m, !.password = <<>>, !.message = s, !.error = e])
  <1>1. <<>> \in Password
    BY NoneType DEF Password
  <1>2. [u EXCEPT !.mode = m, !.password = <<>>, !.message = s, !.error = e] \in Ui
    BY <1>1 DEF GoodUi, Ui
  <1> QED
    BY <1>2, SameSelection DEF GoodUi, Ui

LEMMA GoodPower ==
    ASSUME NEW u, GoodUi(u), NEW k \in 0 .. 2, NEW m \in Modes, NEW s \in Messages,
           NEW e \in BOOLEAN
    PROVE  /\ GoodUi([u EXCEPT !.power_selection = k])
           /\ GoodUi([u EXCEPT !.power_selection = k, !.mode = m, !.message = s, !.error = e])
  <1>1. [u EXCEPT !.power_selection = k] \in Ui
    BY DEF GoodUi, Ui
  <1>2. [u EXCEPT !.power_selection = k, !.mode = m, !.message = s, !.error = e] \in Ui
    BY DEF GoodUi, Ui
  <1> QED
    BY <1>1, <1>2, SameSelection DEF GoodUi, Ui

LEMMA GoodPassword ==
    ASSUME NEW u, GoodUi(u), NEW p \in Password, NEW s \in Messages, NEW e \in BOOLEAN
    PROVE  GoodUi([u EXCEPT !.password = p, !.message = s, !.error = e])
  <1>1. [u EXCEPT !.password = p, !.message = s, !.error = e] \in Ui
    BY DEF GoodUi, Ui
  <1> QED
    BY <1>1, SameSelection DEF GoodUi, Ui

(* Moving in the user menu wraps around within the list. *)
LEMMA AdvanceInList ==
    ASSUME NEW k \in Nat, NEW step \in Nat, NEW n \in Nat, n = 0 => k = 0
    PROVE  /\ Advance(k, step, n) \in Nat
           /\ n = 0 => Advance(k, step, n) = 0
           /\ n > 0 => Advance(k, step, n) < n
  BY DEF Advance

LEMMA GoodMove ==
    ASSUME NEW u, GoodUi(u), NEW step \in Int, Count(u) > 0 => step \in Nat
    PROVE  GoodUi([u EXCEPT !.menu_selected = Advance(@, step, Count(u))])
  <1> DEFINE v == [u EXCEPT !.menu_selected = Advance(u.menu_selected, step, Count(u))]
  <1>1. u \in Ui /\ Count(u) \in Nat /\ u.menu_selected \in Nat
    BY SelectedType DEF GoodUi, Ui
  <1>2. /\ Advance(u.menu_selected, step, Count(u)) \in Nat
        /\ Count(u) = 0 => Advance(u.menu_selected, step, Count(u)) = 0
        /\ Count(u) > 0 => Advance(u.menu_selected, step, Count(u)) < Count(u)
    BY <1>1, AdvanceInList DEF GoodUi, Advance
  <1>3. /\ v \in Ui
        /\ v.users = u.users
        /\ v.selected = u.selected
        /\ v.menu_selected = Advance(u.menu_selected, step, Count(u))
    BY <1>1, <1>2 DEF Ui
  <1>4. GoodUi(v)
    BY <1>1, <1>2, <1>3 DEF GoodUi, Count
  <1> QED
    BY <1>1, <1>4 DEF Ui

(* Choosing the highlighted user. *)
LEMMA GoodChoice ==
    ASSUME NEW u, GoodUi(u)
    PROVE  GoodUi([u EXCEPT !.selected = u.menu_selected, !.password = <<>>, !.mode = "Login",
                            !.message = "PAM AUTHENTICATION", !.error = FALSE])
  <1> DEFINE v == [u EXCEPT !.selected = u.menu_selected, !.password = <<>>, !.mode = "Login",
                            !.message = "PAM AUTHENTICATION", !.error = FALSE]
  <1>1. <<>> \in Password /\ "Login" \in Modes /\ "PAM AUTHENTICATION" \in Messages
    BY NoneType DEF Password, Modes, Messages
  <1>2. v \in Ui /\ v.users = u.users /\ v.selected = u.menu_selected
                 /\ v.menu_selected = u.menu_selected
    BY <1>1 DEF GoodUi, Ui
  <1> QED
    BY <1>2 DEF GoodUi, Count

(* Reading the account list again brings the selections back into it. *)
LEMMA GoodReload ==
    ASSUME passwd \in PasswdFiles, NEW u, GoodUi(u)
    PROVE  GoodUi(reload_users(u))
  <1> DEFINE w == [u EXCEPT !.users = load_users]
  <1>1. load_users \in Seq(Entry)
    BY LoadType
  <1>2. /\ w \in Ui
        /\ w.users = load_users
        /\ w.selected \in Nat
        /\ w.menu_selected \in Nat
    BY <1>1 DEF GoodUi, Ui
  <1>3. Count(w) \in Nat
    BY <1>2, SelectedType
  <1>4. CASE Count(w) = 0
    <2> DEFINE v == [w EXCEPT !.selected = 0, !.menu_selected = 0]
    <2>1. v \in Ui /\ v.users = w.users /\ v.selected = 0 /\ v.menu_selected = 0
      BY <1>2 DEF Ui
    <2>2. reload_users(u) = v
      BY <1>4 DEF reload_users, clamp_selection
    <2> QED
      BY <1>4, <2>1, <2>2 DEF GoodUi, Count
  <1>5. CASE Count(w) > 0
    <2> DEFINE v == [w EXCEPT !.selected = w.selected % Count(w),
                              !.menu_selected = w.menu_selected % Count(w)]
    <2>1. /\ w.selected % Count(w) \in Nat
          /\ w.menu_selected % Count(w) \in Nat
          /\ w.selected % Count(w) < Count(w)
          /\ w.menu_selected % Count(w) < Count(w)
      BY <1>2, <1>3, <1>5
    <2>2. /\ v \in Ui
          /\ v.users = w.users
          /\ v.selected = w.selected % Count(w)
          /\ v.menu_selected = w.menu_selected % Count(w)
      BY <1>2, <2>1 DEF Ui
    <2>3. reload_users(u) = v
      BY <1>2, <1>5 DEF reload_users, clamp_selection, Ui
    <2> QED
      BY <1>5, <2>1, <2>2, <2>3 DEF GoodUi, Count
  <1> QED
    BY <1>3, <1>4, <1>5

(* Opening the user menu on the selected user. *)
LEMMA GoodOpenMenu ==
    ASSUME NEW u, GoodUi(u)
    PROVE  GoodUi([u EXCEPT !.menu_selected = u.selected, !.mode = "UserMenu",
                            !.message = "", !.error = FALSE])
  <1> DEFINE v == [u EXCEPT !.menu_selected = u.selected, !.mode = "UserMenu",
                            !.message = "", !.error = FALSE]
  <1>1. "UserMenu" \in Modes /\ "" \in Messages
    BY DEF Modes, Messages
  <1>2. v \in Ui /\ v.users = u.users /\ v.selected = u.selected
                 /\ v.menu_selected = u.selected
    BY <1>1 DEF GoodUi, Ui
  <1> QED
    BY <1>2 DEF GoodUi, Count

----------------------------------------------------------------------------
(* Steps of the type invariant *)

(* The type invariant in three parts: the helper, the greeter and what      *)
(* surrounds it.                                                            *)
LoopTypeOK ==
    /\ gpc \in {"top", "poll", "dispatch", "write", "wait", "exited"}
    /\ exit \in {"", "ok", "failed", "sigpipe"}
    /\ running \in BOOLEAN
    /\ session_started \in BOOLEAN
    /\ display_error \in BOOLEAN
    /\ configured \in BOOLEAN
    /\ dirty \in BOOLEAN
    /\ ui \in Ui
    /\ keyboard \in BOOLEAN
    /\ xkb \in BOOLEAN
    /\ busy \in [Buffers -> BOOLEAN]
    /\ power \in {"", "shutdown", "reboot"}

EnvTypeOK ==
    /\ wire \in Seq(Event)
    /\ held \in SUBSET Buffers
    /\ shown \in {0} \cup Buffers
    /\ screen \in Frame
    /\ comp \in BOOLEAN
    /\ plugged \in BOOLEAN
    /\ typed \in Nat
    /\ edits \in Nat

LEMMA PartsNow == TypeInv => AuthTypeOK /\ LoopTypeOK /\ EnvTypeOK
  BY DEF TypeInv, TypeOK, LoopTypeOK, EnvTypeOK

LEMMA PartsNext == ASSUME AuthTypeOK', LoopTypeOK', EnvTypeOK' PROVE TypeOK'
  BY DEF TypeOK, LoopTypeOK, EnvTypeOK

LEMMA LoopUnchanged == ASSUME LoopTypeOK, UNCHANGED uiVars PROVE LoopTypeOK'
  <1> USE DEF uiVars, LoopTypeOK
  <1>1. gpc' \in {"top", "poll", "dispatch", "write", "wait", "exited"}
    OBVIOUS
  <1>2. exit' \in {"", "ok", "failed", "sigpipe"} /\ power' \in {"", "shutdown", "reboot"}
    OBVIOUS
  <1>3. running' \in BOOLEAN /\ session_started' \in BOOLEAN /\ display_error' \in BOOLEAN
    OBVIOUS
  <1>4. configured' \in BOOLEAN /\ dirty' \in BOOLEAN /\ keyboard' \in BOOLEAN /\ xkb' \in BOOLEAN
    OBVIOUS
  <1>5. ui' \in Ui /\ busy' \in [Buffers -> BOOLEAN]
    OBVIOUS
  <1> QED
    BY <1>1, <1>2, <1>3, <1>4, <1>5

LEMMA EnvUnchanged == ASSUME EnvTypeOK, UNCHANGED envVars PROVE EnvTypeOK'
  BY DEF EnvTypeOK, envVars

LEMMA AuthUnchanged == ASSUME AuthTypeOK, UNCHANGED authVars PROVE AuthTypeOK'
  BY DEF AuthTypeOK, authVars

(* A dispatched event leaves the queue. *)
LEMMA WireTail ==
    ASSUME TypeInv, wire # <<>>
    PROVE  Tail(wire) \in Seq(Event) /\ Head(wire) \in Event
  <1>1. wire \in Seq(Event)
    BY DEF TypeInv, TypeOK
  <1> QED
    BY <1>1, HeadTailType

(* A key that stays in the dialog: only the dialog, dirty_ and the power    *)
(* action change.                                                           *)
LEMMA TypeKey ==
    ASSUME TypeInv, NEW S, Key(S), Settled, GoodUi(ui'),
           dirty' \in BOOLEAN, power' \in {"", "shutdown", "reboot"}
    PROVE  TypeInv'
  <1>1. AuthTypeOK'
    BY AuthUnchanged DEF TypeInv, TypeOK, Settled, NoLogin
  <1>2. wire' \in Seq(Event)
    BY WireTail DEF Key, Dispatch
  <1>3. TypeOK'
    BY <1>1, <1>2 DEF TypeInv, TypeOK, Key, Dispatch, Settled, NotPainted, NoLogin, GoodUi
  <1>4. SelectionInRange'
    BY DEF SelectionInRange, GoodUi
  <1> QED
    BY <1>3, <1>4 DEF TypeInv, Settled

LEMMA TypeShow ==
    ASSUME TypeInv, NEW S, Key(S), Settled, NEW u, GoodUi(u), Show(u)
    PROVE  TypeInv'
  <1>1. GoodUi(ui')
    BY DEF Show
  <1>2. dirty' \in BOOLEAN /\ power' \in {"", "shutdown", "reboot"}
    BY DEF Show, TypeInv, TypeOK
  <1> QED
    BY <1>1, <1>2, TypeKey

LEMMA TypeNothing ==
    ASSUME TypeInv, NEW S, Key(S), Settled, Nothing
    PROVE  TypeInv'
  <1>1. GoodUi(ui')
    BY GoodNow DEF Nothing
  <1>2. dirty' \in BOOLEAN /\ power' \in {"", "shutdown", "reboot"}
    BY DEF Nothing, TypeInv, TypeOK
  <1> QED
    BY <1>1, <1>2, TypeKey

LEMMA TypeUserMenu ==
    ASSUME TypeInv, UserMenuEscape \/ UserMenuMove \/ UserMenuEnter
    PROVE  TypeInv'
  <1>0. GoodUi(ui) /\ "Login" \in Modes
    BY GoodNow DEF Modes
  <1>1. CASE UserMenuEscape
    <2>1. GoodUi([ui EXCEPT !.mode = "Login"])
      BY <1>0, GoodMode
    <2> QED
      BY <1>1, <2>1, TypeShow DEF UserMenuEscape
  <1>2. CASE UserMenuMove
    <2> DEFINE step == IF Head(wire).sym = "Up" THEN Count(ui) - 1 ELSE 1
    <2>1. Count(ui) \in Nat
      BY <1>0, SelectedType DEF GoodUi
    <2>2. step \in Int /\ (Count(ui) > 0 => step \in Nat)
      BY <2>1
    <2> HIDE DEF step
    <2>3. GoodUi([ui EXCEPT !.menu_selected = Advance(@, step, Count(ui))])
      BY <1>0, <2>2, GoodMove
    <2>4. Show([ui EXCEPT !.menu_selected = Advance(@, step, Count(ui))])
      BY <1>2 DEF UserMenuMove, step
    <2> QED
      BY <1>2, <2>3, <2>4, TypeShow DEF UserMenuMove
  <1>3. CASE UserMenuEnter
    <2>1. CASE Nothing
      BY <1>3, <2>1, TypeNothing DEF UserMenuEnter
    <2>2. CASE Show([ui EXCEPT !.selected = ui.menu_selected, !.password = <<>>,
                               !.mode = "Login", !.message = "PAM AUTHENTICATION",
                               !.error = FALSE])
      <3>1. GoodUi([ui EXCEPT !.selected = ui.menu_selected, !.password = <<>>,
                              !.mode = "Login", !.message = "PAM AUTHENTICATION",
                              !.error = FALSE])
        BY <1>0, GoodChoice
      <3> QED
        BY <1>3, <2>2, <3>1, TypeShow DEF UserMenuEnter
    <2> QED
      BY <1>3, <2>1, <2>2 DEF UserMenuEnter
  <1> QED
    BY <1>1, <1>2, <1>3

LEMMA TypePowerMenu ==
    ASSUME TypeInv, PowerMenuEscape \/ PowerMenuMove \/ run_power_action
    PROVE  TypeInv'
  <1>0. GoodUi(ui) /\ "Login" \in Modes
    BY GoodNow DEF Modes
  <1>1. CASE PowerMenuEscape
    <2>1. GoodUi([ui EXCEPT !.mode = "Login"])
      BY <1>0, GoodMode
    <2> QED
      BY <1>1, <2>1, TypeShow DEF PowerMenuEscape
  <1>2. CASE PowerMenuMove
    <2> DEFINE step == IF Head(wire).sym = "Up" THEN 2 ELSE 1
    <2>1. ui \in Ui /\ ui.power_selection \in 0 .. 2
      BY <1>0 DEF GoodUi, Ui
    <2>2. (ui.power_selection + step) % 3 \in 0 .. 2
      BY <2>1
    <2>3. Show([ui EXCEPT !.power_selection = (@ + step) % 3])
      BY <1>2 DEF PowerMenuMove
    <2>4. [ui EXCEPT !.power_selection = (@ + step) % 3]
            = [ui EXCEPT !.power_selection = (ui.power_selection + step) % 3]
      BY <2>1 DEF Ui
    <2> HIDE DEF step
    <2>5. GoodUi([ui EXCEPT !.power_selection = (ui.power_selection + step) % 3])
      <3>1. "" \in Messages /\ TRUE \in BOOLEAN
        BY DEF Messages
      <3> QED
        BY <1>0, <2>2, <3>1, GoodPower
    <2>6. Key({"Tab", "Down", "Up"}) /\ Settled
      BY <1>2 DEF PowerMenuMove
    <2> QED
      BY <2>3, <2>4, <2>5, <2>6, TypeShow
  <1>3. CASE run_power_action
    <2>1. GoodUi(ui')
      BY <1>0, <1>3, GoodMode DEF run_power_action
    <2>2. dirty' \in BOOLEAN /\ power' \in {"", "shutdown", "reboot"}
      BY <1>3 DEF run_power_action, TypeInv, TypeOK
    <2> QED
      BY <1>3, <2>1, <2>2, TypeKey DEF run_power_action
  <1> QED
    BY <1>1, <1>2, <1>3

LEMMA TypeIgnored ==
    ASSUME TypeInv, KeySwallowed \/ KeyUnmapped \/ LoginOther
    PROVE  TypeInv'
  <1>1. CASE KeySwallowed
    BY <1>1, TypeNothing DEF KeySwallowed
  <1>2. CASE LoginOther
    BY <1>2, TypeNothing DEF LoginOther
  <1>3. CASE KeyUnmapped
    <2>1. AuthTypeOK'
      BY <1>3, AuthUnchanged DEF TypeInv, TypeOK, KeyUnmapped, Settled, NoLogin
    <2>2. wire' \in Seq(Event)
      BY <1>3, WireTail DEF KeyUnmapped, Dispatch
    <2>3. TypeOK'
      <3>1. gpc' = "dispatch" /\ UNCHANGED <<running, session_started, ui, dirty, power>>
        BY <1>3 DEF KeyUnmapped, Settled, Nothing, NoLogin
      <3>2. UNCHANGED <<exit, display_error, configured, keyboard, xkb, busy, held, shown, screen,
                        comp, plugged, typed, edits>>
        BY <1>3 DEF KeyUnmapped, Settled, NotPainted, Dispatch
      <3>3. LoopTypeOK'
        BY <3>1, <3>2, PartsNow DEF LoopTypeOK
      <3>4. EnvTypeOK'
        BY <2>2, <3>2, PartsNow DEF EnvTypeOK
      <3> QED
        BY <2>1, <3>3, <3>4, PartsNext
    <2> QED
      BY <1>3, <2>3 DEF TypeInv, KeyUnmapped, Settled, Nothing, SelectionInRange
  <1> QED
    BY <1>1, <1>2, <1>3

LEMMA TypeLoginView ==
    ASSUME TypeInv, LoginTab \/ LoginEscape \/ LoginBackSpace \/ handle_text \/ LoginNoUsers
    PROVE  TypeInv'
  <1>0. GoodUi(ui)
    BY GoodNow
  <1>m. "PAM AUTHENTICATION" \in Messages /\ "" \in Messages /\ "CREATE A USER FIRST" \in Messages
    BY DEF Messages
  <1>e. TRUE \in BOOLEAN /\ FALSE \in BOOLEAN
    OBVIOUS
  <1>1. CASE LoginTab
    <2> DEFINE u == reload_users(ui)
    <2>1. passwd \in PasswdFiles
      BY DEF TypeInv, TypeOK, AuthTypeOK
    <2>2. GoodUi(u)
      BY <1>0, <2>1, GoodReload
    <2>3. Show([u EXCEPT !.menu_selected = u.selected, !.mode = "UserMenu",
                         !.message = "", !.error = FALSE])
      BY <1>1 DEF LoginTab
    <2> HIDE DEF u
    <2>4. GoodUi([u EXCEPT !.menu_selected = u.selected, !.mode = "UserMenu",
                           !.message = "", !.error = FALSE])
      BY <2>2, GoodOpenMenu
    <2> QED
      BY <1>1, <2>3, <2>4, TypeShow DEF LoginTab
  <1>2. CASE LoginEscape
    <2>1. GoodUi([ui EXCEPT !.power_selection = 2, !.mode = "PowerMenu",
                            !.message = "", !.error = FALSE])
      <3>1. "PowerMenu" \in Modes /\ 2 \in 0 .. 2
        BY DEF Modes
      <3> QED
        BY <1>0, <1>m, <1>e, <3>1, GoodPower
    <2> QED
      BY <1>2, <2>1, TypeShow DEF LoginEscape
  <1>3. CASE LoginBackSpace
    <2> DEFINE p == IF ui.password = <<>> THEN ui.password
                    ELSE SubSeq(ui.password, 1, Len(ui.password) - 1)
    <2>1. ui \in Ui /\ ui.password \in Password
      BY <1>0 DEF GoodUi, Ui
    <2>2. p \in Password
      BY <2>1, FrontType DEF Password
    <2>3. Show([ui EXCEPT !.password = IF @ = <<>> THEN @ ELSE SubSeq(@, 1, Len(@) - 1),
                          !.message = "PAM AUTHENTICATION", !.error = FALSE])
      BY <1>3 DEF LoginBackSpace
    <2>4. Show([ui EXCEPT !.password = p, !.message = "PAM AUTHENTICATION", !.error = FALSE])
      BY <2>1, <2>3 DEF Ui
    <2> HIDE DEF p
    <2>5. GoodUi([ui EXCEPT !.password = p, !.message = "PAM AUTHENTICATION", !.error = FALSE])
      BY <1>0, <1>m, <1>e, <2>2, GoodPassword
    <2> QED
      BY <1>3, <2>4, <2>5, TypeShow DEF LoginBackSpace
  <1>4. CASE handle_text
    <2>1. CASE Nothing
      BY <1>4, <2>1, TypeNothing DEF handle_text
    <2>2. CASE Show([ui EXCEPT !.password = Append(@, Selected(ui)),
                               !.message = "PAM AUTHENTICATION", !.error = FALSE])
      <3> DEFINE p == Append(ui.password, Selected(ui))
      <3>1. ui \in Ui /\ ui.password \in Password
        BY <1>0 DEF GoodUi, Ui
      <3>2. p \in Password
        BY <3>1, SelectedType, AppendProperties DEF Password
      <3>3. Show([ui EXCEPT !.password = p, !.message = "PAM AUTHENTICATION", !.error = FALSE])
        BY <2>2, <3>1 DEF Ui
      <3> HIDE DEF p
      <3>4. GoodUi([ui EXCEPT !.password = p, !.message = "PAM AUTHENTICATION", !.error = FALSE])
        BY <1>0, <1>m, <1>e, <3>2, GoodPassword
      <3> QED
        BY <1>4, <3>3, <3>4, TypeShow DEF handle_text
    <2> QED
      BY <1>4, <2>1, <2>2 DEF handle_text
  <1>5. CASE LoginNoUsers
    <2>1. GoodUi([ui EXCEPT !.message = "CREATE A USER FIRST", !.error = TRUE])
      BY <1>0, <1>m, <1>e, GoodMessage
    <2> QED
      BY <1>5, <2>1, TypeShow DEF LoginNoUsers
  <1> QED
    BY <1>1, <1>2, <1>3, <1>4, <1>5

(* The other listeners do not touch the dialog. *)
LEMMA TypeListeners ==
    ASSUME TypeInv,
           \/ surface_configure \/ toplevel_close \/ seat_capabilities
           \/ keyboard_keymap \/ buffer_release
    PROVE  TypeInv'
  <1>1. /\ \E kind \in EventKinds : Dispatch(kind)
        /\ NoLogin
        /\ gpc' = "dispatch"
        /\ UNCHANGED <<ui, power, held, shown, screen>>
    BY DEF surface_configure, toplevel_close, seat_capabilities, keyboard_keymap,
           buffer_release, NotPainted, EventKinds
  <1>2. wire' \in Seq(Event)
    BY <1>1, WireTail DEF Dispatch
  <1>3. AuthTypeOK'
    BY <1>1, AuthUnchanged DEF TypeInv, TypeOK, NoLogin
  <1>4. busy' \in [Buffers -> BOOLEAN]
    BY DEF TypeInv, TypeOK, surface_configure, toplevel_close, seat_capabilities,
           keyboard_keymap, buffer_release, NotPainted
  <1>5. /\ running' \in BOOLEAN
        /\ configured' \in BOOLEAN
        /\ dirty' \in BOOLEAN
        /\ keyboard' \in BOOLEAN
        /\ xkb' \in BOOLEAN
    BY DEF TypeInv, TypeOK, surface_configure, toplevel_close, seat_capabilities,
           keyboard_keymap, buffer_release
  <1>6. TypeOK'
    BY <1>1, <1>2, <1>3, <1>4, <1>5 DEF TypeInv, TypeOK, Dispatch, NoLogin
  <1> QED
    BY <1>1, <1>6 DEF TypeInv, SelectionInRange

(* Painting the dialog u. *)
LEMMA TypePaint ==
    ASSUME TypeInv, NEW u \in Ui, Paint(u)
    PROVE  /\ busy' \in [Buffers -> BOOLEAN]
           /\ held' \in SUBSET Buffers
           /\ shown' \in {0} \cup Buffers
           /\ screen' \in Frame
  <1>1. CASE NotPainted
    BY <1>1 DEF NotPainted, TypeInv, TypeOK
  <1>2. CASE CanPaint /\ \E b \in next_buffer :
                 /\ busy' = [busy EXCEPT ![b] = TRUE]
                 /\ held' = held \cup {b}
                 /\ shown' = b
    <2>1. screen' \in Frame
      BY <1>2, FrameType DEF Paint, NotPainted
    <2> QED
      BY <1>2, <2>1 DEF next_buffer, TypeInv, TypeOK
  <1> QED
    BY <1>1, <1>2 DEF Paint

LEMMA TypeLoop ==
    ASSUME TypeInv,
           LoopExit \/ LoopTurn \/ PollTimeout \/ DispatchFails \/ DispatchDone
    PROVE  TypeInv'
  <1>1. CASE LoopTurn
    <2>1. ui \in Ui
      BY DEF TypeInv, TypeOK
    <2>2. /\ busy' \in [Buffers -> BOOLEAN]
          /\ held' \in SUBSET Buffers
          /\ shown' \in {0} \cup Buffers
          /\ screen' \in Frame
      BY <1>1, <2>1, TypePaint DEF LoopTurn, render, TypeInv, TypeOK
    <2>3. dirty' \in BOOLEAN
      BY <1>1 DEF LoopTurn, render, TypeInv, TypeOK
    <2>4. AuthTypeOK'
      BY <1>1, AuthUnchanged DEF LoopTurn, TypeInv, TypeOK
    <2>5. TypeOK'
      BY <1>1, <2>2, <2>3, <2>4 DEF LoopTurn, TypeInv, TypeOK
    <2> QED
      BY <1>1, <2>5 DEF LoopTurn, TypeInv, SelectionInRange
  <1>2. CASE LoopExit \/ PollTimeout \/ DispatchFails \/ DispatchDone
    <2>1. AuthTypeOK'
      BY <1>2, AuthUnchanged
      DEF LoopExit, PollTimeout, DispatchFails, DispatchDone, TypeInv, TypeOK
    <2>2. /\ gpc' \in {"top", "exited"}
          /\ exit' \in {"", "ok", "failed", "sigpipe"}
          /\ display_error' \in BOOLEAN
      BY <1>2 DEF LoopExit, PollTimeout, DispatchFails, DispatchDone, TypeInv, TypeOK
    <2>3. UNCHANGED <<running, session_started, configured, dirty, ui, keyboard, xkb, busy,
                      power, envVars>>
      BY <1>2 DEF LoopExit, PollTimeout, DispatchFails, DispatchDone
    <2>4. TypeOK'
      <3>1. LoopTypeOK'
        BY <2>2, <2>3, PartsNow DEF LoopTypeOK
      <3>2. EnvTypeOK'
        BY <2>3, PartsNow, EnvUnchanged
      <3> QED
        BY <2>1, <3>1, <3>2, PartsNext
    <2> QED
      BY <2>2, <2>3, <2>4 DEF TypeInv, SelectionInRange
  <1> QED
    BY <1>1, <1>2

----------------------------------------------------------------------------
(* Login attempts and the helper *)

LEMMA TypeFork ==
    ASSUME TypeInv, ForkHelper \/ ForkFails
    PROVE  TypeInv'
  <1>0. GoodUi(ui)
    BY GoodNow
  <1>1. "Authenticating" \in Modes /\ "Login" \in Modes /\ "AUTHENTICATING" \in Messages
          /\ "AUTH HELPER FAILED" \in Messages
    BY DEF Modes, Messages
  <1>e. TRUE \in BOOLEAN /\ FALSE \in BOOLEAN
    OBVIOUS
  <1>2. GoodUi(Attempting) /\ Count(Attempting) = Count(ui)
    BY <1>0, <1>1, <1>e, GoodAttempt DEF Attempting
  <1>3. GoodUi(Failed("AUTH HELPER FAILED"))
    BY <1>0, <1>1, <1>e, GoodOutcome DEF Failed
  <1>4. /\ busy' \in [Buffers -> BOOLEAN]
        /\ held' \in SUBSET Buffers
        /\ shown' \in {0} \cup Buffers
        /\ screen' \in Frame
    BY <1>2, TypePaint DEF ForkHelper, ForkFails, render, GoodUi
  <1>5. LoginAttempt
    BY DEF ForkHelper, ForkFails
  <1>6. wire' \in Seq(Event)
    BY <1>5, WireTail DEF LoginAttempt, Key, Dispatch
  <1>7. GoodUi(ui') /\ dirty' \in BOOLEAN /\ gpc' \in {"write", "dispatch"}
    BY <1>2, <1>3 DEF ForkHelper, ForkFails, render
  <1>8. AuthTypeOK'
    <2>1. CASE ForkHelper
      BY <2>1, NoneType DEF ForkHelper, TypeInv, TypeOK, AuthTypeOK, NoName, Responses
    <2>2. CASE ForkFails
      BY <2>2, AuthUnchanged DEF ForkFails, TypeInv, TypeOK
    <2> QED
      BY <2>1, <2>2
  <1>9. UNCHANGED <<exit, running, session_started, display_error, configured, keyboard, xkb,
                    power, comp, plugged, typed, edits>>
    BY <1>5 DEF LoginAttempt, Key, Dispatch
  <1>10. TypeOK'
    <2>1. LoopTypeOK'
      BY <1>4, <1>7, <1>9, PartsNow DEF LoopTypeOK, GoodUi
    <2>2. EnvTypeOK'
      BY <1>4, <1>6, <1>9, PartsNow DEF EnvTypeOK
    <2> QED
      BY <1>8, <2>1, <2>2, PartsNext
  <1>11. gpc' = "write" => Count(ui') > 0
    BY <1>2, <1>5 DEF ForkHelper, ForkFails, LoginAttempt
  <1> QED
    BY <1>7, <1>10, <1>11 DEF TypeInv, SelectionInRange, GoodUi, Count

LEMMA MessageType == ASSUME TypeInv PROVE LoginMessage \in Messages
  BY DEF LoginMessage, Messages, Responses

LEMMA TypeAttempt ==
    ASSUME TypeInv, WriteRequest \/ WriteBroken \/ LoginSucceeds \/ LoginFails
    PROVE  TypeInv'
  <1>0. GoodUi(ui)
    BY GoodNow
  <1>1. CASE WriteRequest
    <2>1. Count(ui) > 0 /\ ui \in Ui
      BY <1>0, <1>1 DEF WriteRequest, TypeInv, GoodUi
    <2>2. Selected(ui) \in Names /\ ui.password \in Password
      BY <1>0, <2>1, SelectedType DEF GoodUi, Ui
    <2>3. <<[user |-> Selected(ui), password |-> ui.password]>> \in Seq(Request)
      BY <2>2 DEF Request
    <2>4. stdin' \in [data : Seq(Request), open : BOOLEAN]
      BY <1>1, <2>3 DEF WriteRequest
    <2>5. AuthTypeOK'
      BY <1>1, <2>4 DEF WriteRequest, TypeInv, TypeOK, AuthTypeOK
    <2>6. TypeOK'
      <3>1. LoopTypeOK'
        BY <1>1, PartsNow DEF WriteRequest, LoopTypeOK
      <3>2. EnvTypeOK'
        BY <1>1, PartsNow, EnvUnchanged DEF WriteRequest
      <3> QED
        BY <2>5, <3>1, <3>2, PartsNext
    <2> QED
      BY <1>1, <2>6 DEF WriteRequest, TypeInv, SelectionInRange
  <1>2. CASE WriteBroken
    <2>1. AuthTypeOK'
      BY <1>2, AuthUnchanged DEF WriteBroken, TypeInv, TypeOK
    <2>2. TypeOK'
      <3>1. LoopTypeOK'
        BY <1>2, PartsNow DEF WriteBroken, LoopTypeOK
      <3>2. EnvTypeOK'
        BY <1>2, PartsNow, EnvUnchanged DEF WriteBroken
      <3> QED
        BY <2>1, <3>1, <3>2, PartsNext
    <2> QED
      BY <1>2, <2>2 DEF WriteBroken, TypeInv, SelectionInRange
  <1>3. CASE LoginSucceeds \/ LoginFails
    <2>1. Reaped
      BY <1>3 DEF LoginSucceeds, LoginFails
    <2>2. AuthTypeOK'
      BY <2>1 DEF Reaped, TypeInv, TypeOK, AuthTypeOK
    <2>3. GoodUi(ui')
      <3>1. "Login" \in Modes /\ "StartingSession" \in Modes /\ LoginMessage \in Messages
        BY MessageType DEF Modes
      <3>2. TRUE \in BOOLEAN /\ FALSE \in BOOLEAN
        OBVIOUS
      <3>3. CASE LoginSucceeds
        BY <1>0, <3>1, <3>2, <3>3, GoodOutcome DEF LoginSucceeds
      <3>4. CASE LoginFails
        BY <1>0, <3>1, <3>2, <3>4, GoodOutcome DEF LoginFails, Failed
      <3> QED
        BY <1>3, <3>3, <3>4
    <2>4. dirty' \in BOOLEAN /\ running' \in BOOLEAN /\ session_started' \in BOOLEAN
      BY <1>3 DEF LoginSucceeds, LoginFails, TypeInv, TypeOK
    <2>5. TypeOK'
      <3>1. LoopTypeOK'
        BY <2>1, <2>3, <2>4, PartsNow DEF Reaped, LoopTypeOK, GoodUi
      <3>2. EnvTypeOK'
        BY <2>1, PartsNow, EnvUnchanged DEF Reaped
      <3> QED
        BY <2>2, <3>1, <3>2, PartsNext
    <2> QED
      BY <2>1, <2>3, <2>5 DEF Reaped, TypeInv, SelectionInRange, GoodUi
  <1> QED
    BY <1>1, <1>2, <1>3

(* The account found has the name that was asked for. *)
LEMMA FoundName ==
    ASSUME AuthTypeOK, NEW name, NEW pw \in getpwnam(name)
    PROVE  pw.name = name
  BY DEF getpwnam

LEMMA TypeHelper ==
    ASSUME TypeInv, HelperRuns
    PROVE  TypeInv'
  <1>1. AuthTypeOK
    BY DEF TypeInv, TypeOK
  <1>2. HelperStep \/ HelperKilled
    BY DEF HelperRuns
  <1>3. AuthTypeOK'
    <2>1. CASE \/ ExecFails \/ CallerDenied \/ RequestDenied \/ UserInvalid
               \/ AuthenticationFails \/ SessionFails \/ ReportOk \/ HelperKilled
      BY <1>1, <2>1 DEF ExecFails, CallerDenied, RequestDenied, UserInvalid,
           AuthenticationFails, SessionFails, ReportOk, HelperKilled, ExitWith,
           AuthTypeOK, Responses
    <2>2. CASE CallerAllowed \/ AuthenticationSucceeds
      BY <1>1, <2>2 DEF CallerAllowed, AuthenticationSucceeds, Quiet, AuthTypeOK
    <2>3. CASE UserValid
      <3>1. stdin.data \in Seq(Request) /\ stdin.data # <<>>
        BY <1>1, <2>3 DEF AuthTypeOK, UserValid, RequestRead
      <3>2. Head(stdin.data).user \in Names
        <4>1. Head(stdin.data) \in Request
          BY <3>1, HeadTailType
        <4> QED
          BY <4>1 DEF Request
      <3>3. account' \in Names
        BY <1>1, <2>3, <3>2, FoundName DEF UserValid
      <3> QED
        BY <1>1, <2>3, <3>3 DEF UserValid, Quiet, AuthTypeOK
    <2>4. CASE start_user_session
      <3>1. sessions \in Seq(Names) /\ account \in Names
        BY <1>1, <2>4 DEF AuthTypeOK, start_user_session
      <3>2. Append(sessions, account) \in Seq(Names)
        BY <3>1
      <3> QED
        BY <1>1, <2>4, <3>1, <3>2 DEF start_user_session, Quiet, AuthTypeOK
    <2> QED
      BY <1>2, <2>1, <2>2, <2>3, <2>4 DEF HelperStep
  <1>4. UNCHANGED <<uiVars, envVars>>
    BY DEF HelperRuns
  <1>5. TypeOK'
    BY <1>3, <1>4, PartsNow, PartsNext, LoopUnchanged, EnvUnchanged
  <1> QED
    BY <1>4, <1>5 DEF TypeInv, SelectionInRange, uiVars

----------------------------------------------------------------------------
(* The environment *)

LEMMA EventType ==
    /\ \A sym \in Syms : [Ev("key") EXCEPT !.sym = sym] \in Event
    /\ \A b \in 0 .. 2 : [Ev("release") EXCEPT !.n = b] \in Event
    /\ \A n \in 0 .. 2 : [Ev("caps") EXCEPT !.n = n] \in Event
    /\ \A n \in 0 .. 2 : [Ev("keymap") EXCEPT !.n = n] \in Event
    /\ Ev("close") \in Event
    /\ Ev("caps") \in Event
  BY DEF Ev, Event, EventKinds, Syms

LEMMA TypeEnvironment ==
    ASSUME TypeInv, Environment
    PROVE  TypeInv'
  <1>0. wire \in Seq(Event)
    BY DEF TypeInv, TypeOK
  <1>1. CASE EditPasswd
    <2>1. AuthTypeOK'
      BY <1>1 DEF EditPasswd, TypeInv, TypeOK, AuthTypeOK
    <2>2. LoopTypeOK'
      BY <1>1, PartsNow, LoopUnchanged DEF EditPasswd
    <2>3. EnvTypeOK'
      BY <1>1, PartsNow DEF EditPasswd, EnvTypeOK
    <2>4. TypeOK'
      BY <2>1, <2>2, <2>3, PartsNext
    <2> QED
      BY <1>1, <2>4 DEF EditPasswd, TypeInv, SelectionInRange, uiVars
  <1>2. ASSUME EnvStep, wire' \in Seq(Event), held' \in SUBSET Buffers,
               UNCHANGED <<shown, screen, edits>>,
               comp' \in BOOLEAN, plugged' \in BOOLEAN, typed' \in Nat
        PROVE  TypeInv'
    <2>1. AuthTypeOK'
      BY <1>2, AuthUnchanged DEF EnvStep, TypeInv, TypeOK
    <2>2. LoopTypeOK'
      BY <1>2, PartsNow, LoopUnchanged DEF EnvStep
    <2>3. EnvTypeOK'
      BY <1>2, PartsNow DEF EnvTypeOK
    <2>4. TypeOK'
      BY <2>1, <2>2, <2>3, PartsNext
    <2> QED
      BY <1>2, <2>4 DEF EnvStep, TypeInv, SelectionInRange, uiVars
  <1>3. ASSUME NEW sym \in Keys, Press(sym) PROVE TypeInv'
    <2>1. [Ev("key") EXCEPT !.sym = sym] \in Event
      BY <1>3, EventType, KeysAssumption
    <2>2. wire' \in Seq(Event)
      BY <1>0, <1>3, <2>1 DEF Press
    <2>3. held' \in SUBSET Buffers /\ comp' \in BOOLEAN /\ plugged' \in BOOLEAN
            /\ typed' \in Nat
      BY <1>3, PartsNow DEF Press, EnvTypeOK
    <2> QED
      BY <1>2, <1>3, <2>2, <2>3 DEF Press
  <1>4. ASSUME NEW b \in Buffers, ReleaseBuffer(b) PROVE TypeInv'
    <2>1. [Ev("release") EXCEPT !.n = b] \in Event
      BY EventType DEF Buffers
    <2>2. wire' \in Seq(Event)
      BY <1>0, <1>4, <2>1 DEF ReleaseBuffer
    <2> QED
      BY <1>2, <1>4, <2>2 DEF ReleaseBuffer, TypeInv, TypeOK
  <1>5. CASE CloseToplevel
    <2>1. wire' \in Seq(Event)
      BY <1>0, <1>5, EventType DEF CloseToplevel
    <2> QED
      BY <1>2, <1>5, <2>1 DEF CloseToplevel, TypeInv, TypeOK
  <1>6. CASE CompositorExits
    BY <1>0, <1>2, <1>6 DEF CompositorExits, TypeInv, TypeOK
  <1>7. CASE Unplug
    <2>1. wire' \in Seq(Event)
      <3>1. CASE wire' = Append(wire, Ev("caps"))
        BY <1>0, <3>1, EventType
      <3>2. ASSUME NEW n \in 0 .. 2,
                   wire' = wire \o <<[Ev("caps") EXCEPT !.n = 1], [Ev("keymap") EXCEPT !.n = n]>>
            PROVE  wire' \in Seq(Event)
        <4>1. <<[Ev("caps") EXCEPT !.n = 1], [Ev("keymap") EXCEPT !.n = n]>> \in Seq(Event)
          BY EventType, PairType
        <4> QED
          BY <1>0, <3>2, <4>1, ConcatProperties
      <3> QED
        BY <1>7, <3>1, <3>2 DEF Unplug
    <2>2. held' \in SUBSET Buffers /\ comp' \in BOOLEAN /\ plugged' \in BOOLEAN
            /\ typed' \in Nat
      BY <1>7, PartsNow DEF Unplug, EnvTypeOK
    <2> QED
      BY <1>2, <1>7, <2>1, <2>2 DEF Unplug
  <1> QED
    BY <1>1, <1>3, <1>4, <1>5, <1>6, <1>7 DEF Environment

----------------------------------------------------------------------------
LEMMA TypeStep == TypeInv /\ [Next]_vars => TypeInv'
  <1> SUFFICES ASSUME TypeInv, [Next]_vars PROVE TypeInv'
    OBVIOUS
  <1>1. CASE GreeterStep
    BY <1>1, TypeLoop, TypeListeners, TypeIgnored, TypeUserMenu, TypePowerMenu, TypeLoginView,
       TypeFork, TypeAttempt DEF GreeterStep
  <1>2. CASE HelperRuns
    BY <1>2, TypeHelper
  <1>3. CASE Environment
    BY <1>3, TypeEnvironment
  <1>4. CASE UNCHANGED vars
    <2>1. AuthTypeOK'
      BY <1>4, AuthUnchanged DEF TypeInv, TypeOK, vars
    <2>2. UNCHANGED <<uiVars, envVars>>
      BY <1>4 DEF vars
    <2>3. TypeOK'
      BY <2>1, <2>2, PartsNow, PartsNext, LoopUnchanged, EnvUnchanged
    <2> QED
      BY <2>2, <2>3 DEF TypeInv, SelectionInRange, uiVars
  <1> QED
    BY <1>1, <1>2, <1>3, <1>4 DEF Next

(* Types of greeter, helper and environment, for every account database and *)
(* any number of keys; the name sent to the helper is an account's.         *)
THEOREM GreeterTypeCorrect == Spec => []TypeOK
  <1>1. TypeInv => TypeOK
    BY DEF TypeInv
  <1> QED
    BY TypeInit, TypeStep, <1>1, PTL DEF Spec

(* users_[selected_] is never read past the end of the list, and            *)
(* draw_user_menu paints users of it, the highlighted one among them,       *)
(* whatever lists reload_users reads and however long they are.             *)
THEOREM MenuAlwaysShowsSelection == Spec => []MenuShowsSelection
  <1>1. TypeInv => MenuShowsSelection
    <2> SUFFICES ASSUME TypeInv PROVE MenuShowsSelection
      OBVIOUS
    <2>1. Count(ui) \in Nat /\ ui.menu_selected \in Nat
      BY SelectedType DEF TypeInv, TypeOK, Ui
    <2> QED
      BY <2>1, RowsInList DEF TypeInv, SelectionInRange, MenuShowsSelection
  <1> QED
    BY TypeInit, TypeStep, <1>1, PTL DEF Spec

----------------------------------------------------------------------------
(* The screen shows the dialog *)

(* render() of the dialog that ui becomes. *)
LEMMA ScreenRender ==
    ASSUME NEW u, render(u), ui' = u
    PROVE  ~dirty' => screen' = draw_frame(ui')
  BY DEF render, Paint

(* A key leaves the dialog alone, or leaves a repaint due. *)
LEMMA ScreenKeys ==
    ASSUME GreeterStep
    PROVE  \/ dirty' = TRUE
           \/ UNCHANGED <<ui, dirty, screen, session_started>>
           \/ session_started' = TRUE
           \/ \E u : render(u) /\ ui' = u
  <1>1. CASE LoopExit \/ LoopTurn \/ PollTimeout \/ DispatchFails \/ DispatchDone
    BY <1>1 DEF LoopExit, LoopTurn, PollTimeout, DispatchFails, DispatchDone, envVars
  <1>2. CASE surface_configure \/ toplevel_close \/ seat_capabilities \/ keyboard_keymap
               \/ buffer_release
    BY <1>2 DEF surface_configure, toplevel_close, seat_capabilities, keyboard_keymap,
                buffer_release, NotPainted, NoLogin
  <1>3. CASE KeyUnmapped \/ KeySwallowed \/ LoginOther
    BY <1>3 DEF KeyUnmapped, KeySwallowed, LoginOther, Settled, Nothing, NotPainted, NoLogin
  <1>4. CASE UserMenuEscape \/ UserMenuMove \/ PowerMenuEscape \/ PowerMenuMove
               \/ run_power_action \/ LoginTab \/ LoginEscape \/ LoginBackSpace \/ LoginNoUsers
    BY <1>4 DEF UserMenuEscape, UserMenuMove, PowerMenuEscape, PowerMenuMove, run_power_action,
                LoginTab, LoginEscape, LoginBackSpace, LoginNoUsers, Show
  <1>5. CASE UserMenuEnter \/ handle_text
    BY <1>5 DEF UserMenuEnter, handle_text, Settled, Show, Nothing, NotPainted, NoLogin
  <1>6. CASE ForkHelper
    BY <1>6 DEF ForkHelper
  <1>7. CASE ForkFails
    BY <1>7 DEF ForkFails
  <1>8. CASE WriteRequest \/ WriteBroken
    BY <1>8 DEF WriteRequest, WriteBroken, envVars
  <1>9. CASE LoginSucceeds \/ LoginFails
    BY <1>9 DEF LoginSucceeds, LoginFails
  <1> QED
    BY <1>1, <1>2, <1>3, <1>4, <1>5, <1>6, <1>7, <1>8, <1>9 DEF GreeterStep

LEMMA ScreenStep == ScreenCurrent /\ [Next]_vars => ScreenCurrent'
  <1> SUFFICES ASSUME ScreenCurrent, [Next]_vars PROVE ScreenCurrent'
    OBVIOUS
  <1>1. ASSUME UNCHANGED <<ui, dirty, screen, session_started>> PROVE ScreenCurrent'
    <2>1. draw_frame(ui') = draw_frame(ui)
      BY <1>1
    <2> QED
      BY <1>1, <2>1 DEF ScreenCurrent
  <1>2. CASE GreeterStep
    <2>1. CASE \E u : render(u) /\ ui' = u
      <3>1. ~dirty' => screen' = draw_frame(ui')
        BY <2>1, ScreenRender
      <3> QED
        BY <3>1 DEF ScreenCurrent
    <2>2. CASE dirty' = TRUE \/ session_started' = TRUE
      BY <2>2 DEF ScreenCurrent
    <2> QED
      BY <1>1, <1>2, <2>1, <2>2, ScreenKeys
  <1>3. CASE HelperRuns
    BY <1>1, <1>3 DEF HelperRuns, uiVars, envVars
  <1>4. CASE Environment
    <2>1. UNCHANGED <<ui, dirty, screen, session_started>>
      BY <1>4 DEF Environment, Press, ReleaseBuffer, CloseToplevel, CompositorExits, Unplug,
                  EditPasswd, EnvStep, uiVars
    <2> QED
      BY <1>1, <2>1
  <1>5. CASE UNCHANGED vars
    BY <1>1, <1>5 DEF vars, uiVars, envVars
  <1> QED
    BY <1>2, <1>3, <1>4, <1>5 DEF Next

(* Whenever no repaint is due the screen shows the dialog as it is: no      *)
(* handler changes it silently, and a repaint for which no buffer was free  *)
(* stays due.                                                               *)
THEOREM ScreenAlwaysCurrent == Spec => []ScreenCurrent
  <1>1. Init => ScreenCurrent
    BY DEF Init, ScreenCurrent
  <1> QED
    BY ScreenStep, <1>1, PTL DEF Spec

----------------------------------------------------------------------------
(* Buffers shared with the compositor *)

Release(e) == e.kind = "release"

(* A buffer the compositor may read is busy, and so is one whose release is *)
(* still under way; no release is sent twice.                               *)
BufInv ==
    /\ \A b \in held : busy[b]
    /\ \A n \in DOMAIN wire : Release(wire[n]) => busy[wire[n].n] /\ wire[n].n \notin held
    /\ \A m, n \in DOMAIN wire :
          Release(wire[m]) /\ Release(wire[n]) /\ wire[m].n = wire[n].n => m = n

(* An event leaves the queue, or one that is no release enters it. *)
LEMMA TailAt ==
    ASSUME NEW S, NEW s \in Seq(S), s # <<>>
    PROVE  \A n \in DOMAIN Tail(s) : n + 1 \in DOMAIN s /\ Tail(s)[n] = s[n + 1] /\ n \in Nat \ {0}
  OBVIOUS

LEMMA AppendAt ==
    ASSUME NEW S, NEW s \in Seq(S), NEW e
    PROVE  \A n \in DOMAIN Append(s, e) :
              \/ n \in DOMAIN s /\ Append(s, e)[n] = s[n]
              \/ n = Len(s) + 1 /\ n \notin DOMAIN s /\ Append(s, e)[n] = e
  OBVIOUS

LEMMA BufTail ==
    ASSUME TypeInv, BufInv, wire # <<>>, wire' = Tail(wire), UNCHANGED <<busy, held>>
    PROVE  BufInv'
  <1>1. wire \in Seq(Event)
    BY DEF TypeInv, TypeOK
  <1>2. \A n \in DOMAIN wire' : n + 1 \in DOMAIN wire /\ wire'[n] = wire[n + 1] /\ n \in Nat \ {0}
    BY <1>1, TailAt
  <1>3. \A n \in DOMAIN wire' : Release(wire'[n]) => busy[wire'[n].n] /\ wire'[n].n \notin held
    BY <1>2 DEF BufInv
  <1>4. \A m, n \in DOMAIN wire' :
          Release(wire'[m]) /\ Release(wire'[n]) /\ wire'[m].n = wire'[n].n => m = n
    BY <1>2 DEF BufInv
  <1> QED
    BY <1>3, <1>4 DEF BufInv, Release

LEMMA BufKept ==
    ASSUME BufInv, UNCHANGED <<busy, held>>,
           \A j \in DOMAIN wire' : Release(wire'[j]) => j \in DOMAIN wire /\ wire'[j] = wire[j]
    PROVE  BufInv'
  <1>1. \A j \in DOMAIN wire' : Release(wire'[j]) => busy[wire'[j].n] /\ wire'[j].n \notin held
    BY DEF BufInv
  <1>2. \A m, n \in DOMAIN wire' :
          Release(wire'[m]) /\ Release(wire'[n]) /\ wire'[m].n = wire'[n].n => m = n
    BY DEF BufInv
  <1> QED
    BY <1>1, <1>2 DEF BufInv, Release

LEMMA BufAppend ==
    ASSUME TypeInv, BufInv, NEW e, ~Release(e), wire' = Append(wire, e),
           UNCHANGED <<busy, held>>
    PROVE  BufInv'
  <1>1. wire \in Seq(Event)
    BY DEF TypeInv, TypeOK
  <1>2. \A n \in DOMAIN wire' : Release(wire'[n]) => n \in DOMAIN wire /\ wire'[n] = wire[n]
    BY <1>1, AppendAt
  <1> QED
    BY <1>2, BufKept

(* Painting takes a buffer that is not busy: not one that is held, nor one  *)
(* whose release is under way.                                              *)
LEMMA BufPaint ==
    ASSUME TypeInv, BufInv, NEW u, Paint(u)
    PROVE  /\ screen' # screen => shown' \notin held
           /\ \A b \in held' : busy'[b]
           /\ \A n \in DOMAIN wire :
                Release(wire[n]) => busy'[wire[n].n] /\ wire[n].n \notin held'
  <1>1. CASE NotPainted
    BY <1>1 DEF NotPainted, BufInv
  <1>2. ASSUME NEW b \in next_buffer, busy' = [busy EXCEPT ![b] = TRUE],
               held' = held \cup {b}, shown' = b
        PROVE  /\ screen' # screen => shown' \notin held
               /\ \A c \in held' : busy'[c]
               /\ \A n \in DOMAIN wire :
                    Release(wire[n]) => busy'[wire[n].n] /\ wire[n].n \notin held'
    <2>1. b \in Buffers /\ ~busy[b] /\ busy \in [Buffers -> BOOLEAN] /\ held \subseteq Buffers
      BY <1>2 DEF next_buffer, TypeInv, TypeOK
    <2>2. b \notin held
      BY <2>1 DEF BufInv
    <2>3. \A c \in held' : busy'[c]
      BY <1>2, <2>1 DEF BufInv
    <2>4. ASSUME NEW n \in DOMAIN wire, Release(wire[n])
          PROVE  busy'[wire[n].n] /\ wire[n].n \notin held'
      <3>1. busy[wire[n].n] /\ wire[n].n \notin held /\ wire[n].n # b
        BY <2>1, <2>4 DEF BufInv
      <3> QED
        BY <1>2, <2>1, <3>1
    <2> QED
      BY <1>2, <2>2, <2>3, <2>4
  <1> QED
    BY <1>1, <1>2 DEF Paint

(* The compositor gives a held buffer back, once. *)
LEMMA BufGiveBack ==
    ASSUME TypeInv, BufInv, NEW b \in Buffers, ReleaseBuffer(b)
    PROVE  BufInv'
  <1> DEFINE e == [Ev("release") EXCEPT !.n = b]
  <1>1. wire \in Seq(Event) /\ wire' = Append(wire, e) /\ b \in held /\ held' = held \ {b}
          /\ busy' = busy
    BY DEF TypeInv, TypeOK, ReleaseBuffer, EnvStep, uiVars
  <1>2. e.n = b
    BY DEF Ev
  <1> HIDE DEF e
  <1>3. busy[b] /\ \A n \in DOMAIN wire : Release(wire[n]) => wire[n].n # b
    BY <1>1 DEF BufInv
  <1>4. \A n \in DOMAIN wire' : \/ n \in DOMAIN wire /\ wire'[n] = wire[n]
                                \/ n = Len(wire) + 1 /\ n \notin DOMAIN wire /\ wire'[n] = e
    BY <1>1, AppendAt
  <1>5. \A c \in held' : busy'[c]
    BY <1>1 DEF BufInv
  <1>6. \A n \in DOMAIN wire' : Release(wire'[n]) => busy'[wire'[n].n] /\ wire'[n].n \notin held'
    BY <1>1, <1>2, <1>3, <1>4 DEF BufInv
  <1>7. \A m, n \in DOMAIN wire' :
          Release(wire'[m]) /\ Release(wire'[n]) /\ wire'[m].n = wire'[n].n => m = n
    BY <1>2, <1>3, <1>4 DEF BufInv
  <1> QED
    BY <1>5, <1>6, <1>7 DEF BufInv, Release

(* The greeter learns of it: the buffer was not held again in between. *)
LEMMA BufReleased == ASSUME TypeInv, BufInv, buffer_release PROVE BufInv'
  <1>1. /\ wire \in Seq(Event) /\ wire # <<>>
        /\ Release(Head(wire)) /\ wire' = Tail(wire)
        /\ busy' = [busy EXCEPT ![Head(wire).n] = FALSE] /\ held' = held
        /\ busy \in [Buffers -> BOOLEAN]
    BY DEF TypeInv, TypeOK, buffer_release, Dispatch, Release
  <1>2. 1 \in DOMAIN wire /\ Head(wire) = wire[1]
    BY <1>1
  <1>3. wire[1].n \notin held
    BY <1>1, <1>2 DEF BufInv
  <1>4. \A b \in held' : busy'[b]
    BY <1>1, <1>2, <1>3 DEF BufInv
  <1>5. \A n \in DOMAIN wire' : n + 1 \in DOMAIN wire /\ wire'[n] = wire[n + 1] /\ n \in Nat \ {0}
    BY <1>1, TailAt
  <1>6. \A n \in DOMAIN wire' : n + 1 # 1
    BY <1>5
  <1>7. \A n \in DOMAIN wire' : Release(wire'[n]) => wire'[n].n # wire[1].n
    BY <1>1, <1>2, <1>5, <1>6 DEF BufInv
  <1>8. \A n \in DOMAIN wire' : Release(wire'[n]) => busy'[wire'[n].n] /\ wire'[n].n \notin held'
    BY <1>1, <1>2, <1>5, <1>7 DEF BufInv
  <1>9. \A m, n \in DOMAIN wire' :
          Release(wire'[m]) /\ Release(wire'[n]) /\ wire'[m].n = wire'[n].n => m = n
    BY <1>5 DEF BufInv
  <1> QED
    BY <1>4, <1>8, <1>9 DEF BufInv, Release

LEMMA BufSame == ASSUME BufInv, UNCHANGED <<wire, busy, held>> PROVE BufInv'
  BY DEF BufInv, Release

LEMMA BufRender ==
    ASSUME TypeInv, BufInv, LoopTurn \/ ForkHelper \/ ForkFails
    PROVE  BufInv' /\ (screen' # screen => shown' \notin held)
  <1>1. wire \in Seq(Event)
    BY DEF TypeInv, TypeOK
  <1>2. CASE LoopTurn /\ ~dirty
    BY <1>2, BufSame DEF LoopTurn
  <1>3. CASE (LoopTurn /\ dirty) \/ ForkHelper \/ ForkFails
    <2>1. \E u : Paint(u)
      BY <1>3 DEF LoopTurn, ForkHelper, ForkFails, render
    <2>2. /\ screen' # screen => shown' \notin held
          /\ \A b \in held' : busy'[b]
          /\ \A n \in DOMAIN wire :
               Release(wire[n]) => busy'[wire[n].n] /\ wire[n].n \notin held'
      BY <2>1, BufPaint
    <2>3. CASE wire' = wire
      BY <2>2, <2>3 DEF BufInv, Release
    <2>4. CASE wire # <<>> /\ wire' = Tail(wire)
      <3>1. \A n \in DOMAIN wire' :
               n + 1 \in DOMAIN wire /\ wire'[n] = wire[n + 1] /\ n \in Nat \ {0}
        BY <1>1, <2>4, TailAt
      <3>2. \A n \in DOMAIN wire' :
               Release(wire'[n]) => busy'[wire'[n].n] /\ wire'[n].n \notin held'
        BY <2>2, <3>1
      <3>3. \A m, n \in DOMAIN wire' :
               Release(wire'[m]) /\ Release(wire'[n]) /\ wire'[m].n = wire'[n].n => m = n
        BY <3>1 DEF BufInv
      <3> QED
        BY <2>2, <3>2, <3>3 DEF BufInv, Release
    <2> QED
      BY <1>3, <2>2, <2>3, <2>4 DEF LoopTurn, ForkHelper, ForkFails, LoginAttempt, Key, Dispatch
  <1> QED
    BY <1>2, <1>3

LEMMA BufGreeter ==
    ASSUME TypeInv, BufInv, GreeterStep
    PROVE  BufInv' /\ (screen' # screen => shown' \notin held)
  <1>1. CASE LoopTurn \/ ForkHelper \/ ForkFails
    BY <1>1, BufRender
  <1>2. CASE buffer_release
    BY <1>2, BufReleased DEF buffer_release
  <1>3. CASE LoopExit \/ PollTimeout \/ DispatchFails \/ DispatchDone \/ WriteRequest
               \/ WriteBroken \/ LoginSucceeds \/ LoginFails
    <2>1. UNCHANGED <<wire, busy, held, screen>>
      BY <1>3 DEF LoopExit, PollTimeout, DispatchFails, DispatchDone, WriteRequest, WriteBroken,
                  LoginSucceeds, LoginFails, Reaped, envVars
    <2> QED
      BY <2>1, BufSame
  <1>4. CASE surface_configure \/ toplevel_close \/ seat_capabilities \/ keyboard_keymap
    <2>1. wire # <<>> /\ wire' = Tail(wire) /\ UNCHANGED <<busy, held, screen>>
      BY <1>4 DEF surface_configure, toplevel_close, seat_capabilities, keyboard_keymap,
                  Dispatch, NotPainted
    <2> QED
      BY <2>1, BufTail
  <1>5. CASE KeyUnmapped
    <2>1. wire # <<>> /\ wire' = Tail(wire) /\ UNCHANGED <<busy, held, screen>>
      BY <1>5 DEF KeyUnmapped, Dispatch, Settled, NotPainted
    <2> QED
      BY <2>1, BufTail
  <1>6. CASE \/ KeySwallowed \/ UserMenuEscape \/ UserMenuMove \/ UserMenuEnter
             \/ PowerMenuEscape \/ PowerMenuMove \/ run_power_action
             \/ LoginTab \/ LoginEscape \/ LoginBackSpace \/ handle_text \/ LoginOther
             \/ LoginNoUsers
    <2>1. Settled /\ \E S : Key(S)
      BY <1>6 DEF KeySwallowed, UserMenuEscape, UserMenuMove, UserMenuEnter, PowerMenuEscape,
                  PowerMenuMove, run_power_action, LoginTab, LoginEscape, LoginBackSpace,
                  handle_text, LoginOther, LoginNoUsers
    <2>2. wire # <<>> /\ wire' = Tail(wire) /\ UNCHANGED <<busy, held, screen>>
      BY <2>1 DEF Key, Dispatch, Settled, NotPainted
    <2> QED
      BY <2>2, BufTail
  <1> QED
    BY <1>1, <1>2, <1>3, <1>4, <1>5, <1>6 DEF GreeterStep

LEMMA BufEnvironment ==
    ASSUME TypeInv, BufInv, Environment
    PROVE  BufInv' /\ screen' = screen
  <1>0. screen' = screen
    BY DEF Environment, Press, ReleaseBuffer, CloseToplevel, CompositorExits, Unplug, EditPasswd
  <1>1. ASSUME NEW sym \in Keys, Press(sym) PROVE BufInv'
    <2>1. ~Release([Ev("key") EXCEPT !.sym = sym])
      BY DEF Ev, Release
    <2> QED
      BY <1>1, <2>1, BufAppend DEF Press, EnvStep, uiVars
  <1>2. ASSUME NEW b \in Buffers, ReleaseBuffer(b) PROVE BufInv'
    BY <1>2, BufGiveBack
  <1>3. CASE CloseToplevel
    <2>1. ~Release(Ev("close"))
      BY DEF Ev, Release
    <2> QED
      BY <1>3, <2>1, BufAppend DEF CloseToplevel, EnvStep, uiVars
  <1>4. CASE CompositorExits \/ EditPasswd
    BY <1>4, BufSame DEF CompositorExits, EditPasswd, EnvStep, uiVars
  <1>5. CASE Unplug
    <2>1. CASE wire' = Append(wire, Ev("caps"))
      <3>1. ~Release(Ev("caps"))
        BY DEF Ev, Release
      <3> QED
        BY <1>5, <2>1, <3>1, BufAppend DEF Unplug, EnvStep, uiVars
    <2>2. ASSUME NEW n \in 0 .. 2,
                 wire' = wire \o <<[Ev("caps") EXCEPT !.n = 1], [Ev("keymap") EXCEPT !.n = n]>>
          PROVE  BufInv'
      <3> DEFINE a == [Ev("caps") EXCEPT !.n = 1]
      <3> DEFINE k == [Ev("keymap") EXCEPT !.n = n]
      <3>1. ~Release(a) /\ ~Release(k) /\ a \in Event /\ k \in Event
        BY EventType DEF Ev, Release
      <3>2. wire \in Seq(Event) /\ wire' = wire \o <<a, k>> /\ busy' = busy /\ held' = held
        BY <1>5, <2>2 DEF Unplug, EnvStep, uiVars, TypeInv, TypeOK
      <3> HIDE DEF a, k
      <3>3. \A j \in DOMAIN wire' : \/ j \in DOMAIN wire /\ wire'[j] = wire[j]
                                    \/ wire'[j] = a
                                    \/ wire'[j] = k
        BY <3>1, <3>2
      <3>4. \A j \in DOMAIN wire' : Release(wire'[j]) => j \in DOMAIN wire /\ wire'[j] = wire[j]
        BY <3>1, <3>3
      <3> QED
        BY <3>2, <3>4, BufKept
    <2> QED
      BY <1>5, <2>1, <2>2 DEF Unplug
  <1> QED
    BY <1>0, <1>1, <1>2, <1>3, <1>4, <1>5 DEF Environment

LEMMA BufStep ==
    TypeInv /\ BufInv /\ [Next]_vars => BufInv' /\ (screen' # screen => shown' \notin held)
  <1> SUFFICES ASSUME TypeInv, BufInv, [Next]_vars
               PROVE  BufInv' /\ (screen' # screen => shown' \notin held)
    OBVIOUS
  <1>1. CASE HelperRuns
    BY <1>1, BufSame DEF HelperRuns, uiVars, envVars
  <1>2. CASE UNCHANGED vars
    BY <1>2, BufSame DEF vars, uiVars, envVars
  <1> QED
    BY <1>1, <1>2, BufGreeter, BufEnvironment DEF Next

LEMMA BufInit == Init => BufInv
  <1> SUFFICES ASSUME Init PROVE BufInv
    OBVIOUS
  <1> DEFINE a == [Ev("keymap") EXCEPT !.n = 1]
  <1> DEFINE c == Ev("configure")
  <1>1. wire = <<a, c>> /\ held = {}
    BY DEF Init
  <1>2. ~Release(a) /\ ~Release(c)
    BY DEF Ev, Release
  <1> HIDE DEF a, c
  <1>3. \A n \in DOMAIN wire : ~Release(wire[n])
    BY <1>1, <1>2
  <1> QED
    BY <1>1, <1>3 DEF BufInv

(* The greeter never draws into a buffer that the compositor may still      *)
(* read, whatever the order of paints, releases and keys.                   *)
THEOREM BuffersNeverTorn == Spec => NeverDrawsHeldBuffer
  <1>1. TypeInv /\ BufInv /\ [Next]_vars => [screen' # screen => shown' \notin held]_vars
    BY BufStep
  <1>2. TypeInv /\ BufInv /\ [Next]_vars => BufInv'
    BY BufStep
  <1> QED
    BY TypeInit, TypeStep, BufInit, <1>1, <1>2, PTL DEF Spec, NeverDrawsHeldBuffer

----------------------------------------------------------------------------
(* One session, known to the greeter *)

(* The helper has started a session, or has said so and not been reaped. *)
Begun == gpc = "wait" /\ (helper = "started" \/ (helper = "dead" /\ status = 0))

(* Where the two processes are relative to each other; what the request     *)
(* says; and that a session exists exactly from the moment systemd-run      *)
(* succeeds.                                                                *)
HandInv ==
    /\ gpc \in {"write", "wait"} => helper # "none" /\ ui.mode = "Authenticating"
    /\ gpc \in {"top", "poll", "dispatch"} => helper = "none"
    /\ gpc = "exited" => helper \in {"none", "dead"}
    /\ gpc = "write" => /\ stdin.open
                        /\ helper \in {"main", "read", "dead"}
                        /\ helper = "dead" => status # 0
    /\ gpc = "wait" => stdin.data = <<[user |-> Selected(ui), password |-> ui.password]>>
    /\ helper \in {"pam", "start", "started"} => gpc = "wait" /\ account = Selected(ui)
    /\ session_started => /\ sessions = <<Selected(ui)>>
                          /\ ui.mode = "StartingSession"
                          /\ gpc \notin {"write", "wait"}
    /\ ~session_started => IF Begun THEN sessions = <<Selected(ui)>> ELSE sessions = <<>>

LEMMA HandImplies == TypeInv /\ HandInv => HandoffMatchesSession
  <1> SUFFICES ASSUME TypeInv, HandInv PROVE HandoffMatchesSession
    OBVIOUS
  <1>0. session_started \in BOOLEAN
    BY DEF TypeInv, TypeOK
  <1>1. CASE session_started
    <2>1. sessions = <<Selected(ui)>>
      BY <1>1 DEF HandInv
    <2>2. Len(sessions) = 1 /\ sessions # <<>>
      BY <2>1
    <2> QED
      BY <1>1, <2>1, <2>2 DEF HandoffMatchesSession
  <1>2. CASE ~session_started
    <2>1. sessions = <<>> \/ (sessions = <<Selected(ui)>> /\ gpc = "wait")
      BY <1>2 DEF HandInv, Begun
    <2>2. Len(sessions) <= 1
      BY <2>1
    <2> QED
      BY <1>2, <2>1, <2>2 DEF HandoffMatchesSession
  <1> QED
    BY <1>0, <1>1, <1>2

LEMMA HandInit == Init => HandInv
  BY DEF Init, AuthInit, HandInv, Begun

(* Outside an attempt, and while no helper exists, only the selection of    *)
(* a greeter that has handed over matters.                                  *)
LEMMA HandDialog ==
    ASSUME TypeInv, HandInv, UNCHANGED <<authVars, session_started>>,
           gpc \in {"top", "poll", "dispatch"}, gpc' \in {"top", "poll", "dispatch", "exited"},
           ui' = ui \/ ui.mode # "StartingSession"
    PROVE  HandInv'
  <1>1. helper = "none" /\ helper' = "none" /\ sessions' = sessions
          /\ session_started' = session_started
    BY DEF HandInv, authVars
  <1>2. ~Begun /\ ~Begun'
    BY <1>1 DEF Begun
  <1>3. CASE session_started
    <2>1. ui' = ui
      BY <1>3 DEF HandInv
    <2>2. Selected(ui') = Selected(ui)
      BY <2>1
    <2> QED
      BY <1>1, <1>3, <2>1, <2>2 DEF HandInv
  <1>4. CASE ~session_started
    BY <1>1, <1>2, <1>4 DEF HandInv
  <1> QED
    BY <1>3, <1>4

(* What the greeter does outside an attempt leaves the helper's world alone, *)
(* and the dialog too once the session has started.                          *)
LEMMA DialogSteps ==
    ASSUME GreeterStep,
           ~ (ForkHelper \/ WriteRequest \/ WriteBroken \/ LoginSucceeds \/ LoginFails)
    PROVE  /\ gpc \in {"top", "poll", "dispatch"}
           /\ gpc' \in {"top", "poll", "dispatch", "exited"}
           /\ UNCHANGED <<authVars, session_started>>
           /\ ui' = ui \/ ui.mode # "StartingSession"
  <1>1. CASE LoopExit \/ LoopTurn \/ PollTimeout \/ DispatchFails \/ DispatchDone
    BY <1>1 DEF LoopExit, LoopTurn, PollTimeout, DispatchFails, DispatchDone
  <1>2. CASE surface_configure \/ toplevel_close \/ seat_capabilities \/ keyboard_keymap
               \/ buffer_release
    BY <1>2 DEF surface_configure, toplevel_close, seat_capabilities, keyboard_keymap,
                buffer_release, Dispatch, NoLogin
  <1>3. CASE KeyUnmapped \/ KeySwallowed \/ LoginOther
    BY <1>3 DEF KeyUnmapped, KeySwallowed, LoginOther, Key, Dispatch, Settled, NoLogin, Nothing
  <1>4. CASE \/ UserMenuEscape \/ UserMenuMove \/ UserMenuEnter
             \/ PowerMenuEscape \/ PowerMenuMove \/ run_power_action
             \/ LoginTab \/ LoginEscape \/ LoginBackSpace \/ handle_text \/ LoginNoUsers
    <2>1. ui.mode # "StartingSession" /\ Settled /\ \E S : Key(S)
      BY <1>4 DEF UserMenuEscape, UserMenuMove, UserMenuEnter, PowerMenuEscape,
                  PowerMenuMove, run_power_action, LoginTab, LoginEscape, LoginBackSpace,
                  handle_text, LoginNoUsers
    <2> QED
      BY <2>1 DEF Key, Dispatch, Settled, NoLogin
  <1>5. CASE ForkFails
    BY <1>5 DEF ForkFails, LoginAttempt, Key, Dispatch
  <1> QED
    BY <1>1, <1>2, <1>3, <1>4, <1>5 DEF GreeterStep

LEMMA HandKeys ==
    ASSUME TypeInv, HandInv, GreeterStep,
           ~ (ForkHelper \/ WriteRequest \/ WriteBroken \/ LoginSucceeds \/ LoginFails)
    PROVE  HandInv'
  BY DialogSteps, HandDialog

(* Changing mode, message or password does not change who is selected. *)
LEMMA SelectedKept ==
    ASSUME NEW u, NEW v, v.users = u.users, v.selected = u.selected
    PROVE  Selected(v) = Selected(u)
  BY DEF Selected

LEMMA HandAttempt ==
    ASSUME TypeInv, HandInv,
           ForkHelper \/ WriteRequest \/ WriteBroken \/ LoginSucceeds \/ LoginFails
    PROVE  HandInv'
  <1>0. ui \in Ui
    BY DEF TypeInv, TypeOK
  <1>1. CASE ForkHelper
    <2>1. gpc \in {"poll", "dispatch"} /\ ui.mode = "Login" /\ ui' = Attempting
            /\ helper' = "main" /\ gpc' = "write" /\ stdin'.open
            /\ UNCHANGED <<session_started, sessions>>
      BY <1>1 DEF ForkHelper, LoginAttempt, Key, Dispatch
    <2>2. ~session_started /\ ~Begun /\ ~Begun'
      BY <2>1 DEF HandInv, Begun
    <2>3. ui'.mode = "Authenticating"
      BY <1>0, <2>1 DEF Attempting, Ui
    <2> QED
      BY <2>1, <2>2, <2>3 DEF HandInv
  <1>2. CASE WriteRequest
    <2>1. ui' = ui /\ Selected(ui') = Selected(ui)
      BY <1>2 DEF WriteRequest
    <2>2. gpc = "write" /\ gpc' = "wait" /\ helper \in {"main", "read"}
            /\ UNCHANGED <<helper, account, status, sessions, session_started>>
            /\ stdin'.data = <<[user |-> Selected(ui), password |-> ui.password]>>
      BY <1>2 DEF WriteRequest, HandInv
    <2>3. ~session_started /\ ~Begun /\ ~Begun'
      BY <2>2 DEF HandInv, Begun
    <2> QED
      BY <2>1, <2>2, <2>3 DEF HandInv
  <1>3. CASE WriteBroken
    <2>1. ui' = ui /\ Selected(ui') = Selected(ui)
      BY <1>3 DEF WriteBroken
    <2>2. gpc = "write" /\ gpc' = "exited" /\ helper = "dead"
            /\ UNCHANGED <<authVars, session_started>>
      BY <1>3 DEF WriteBroken
    <2>3. ~session_started /\ ~Begun /\ ~Begun'
      BY <2>2 DEF HandInv, Begun
    <2> QED
      BY <2>1, <2>2, <2>3 DEF HandInv, authVars
  <1>4. CASE LoginSucceeds
    <2>1. gpc = "wait" /\ helper = "dead" /\ status = 0 /\ gpc' = "dispatch" /\ helper' = "none"
            /\ session_started' = TRUE /\ sessions' = sessions
      BY <1>4 DEF LoginSucceeds, Reaped
    <2>2. ~session_started /\ sessions = <<Selected(ui)>>
      BY <2>1 DEF HandInv, Begun
    <2>3. ui'.mode = "StartingSession" /\ ui'.users = ui.users /\ ui'.selected = ui.selected
      BY <1>0, <1>4 DEF LoginSucceeds, Ui
    <2>4. Selected(ui') = Selected(ui)
      BY <2>3, SelectedKept
    <2> QED
      BY <2>1, <2>2, <2>3, <2>4 DEF HandInv
  <1>5. CASE LoginFails
    <2>1. gpc = "wait" /\ helper = "dead" /\ status # 0 /\ gpc' = "dispatch" /\ helper' = "none"
            /\ session_started' = session_started /\ sessions' = sessions
      BY <1>5 DEF LoginFails, Reaped
    <2>2. ~session_started /\ ~Begun /\ ~Begun'
      BY <2>1 DEF HandInv, Begun
    <2> QED
      BY <2>1, <2>2 DEF HandInv
  <1> QED
    BY <1>1, <1>2, <1>3, <1>4, <1>5

(* The helper, when no signal ends it between starting the session and      *)
(* reporting it.                                                            *)
LEMMA ExitCodes == kAuthFailed # 0 /\ kSessionFailed # 0 /\ kHelperFailed # 0 /\ ExecFailed # 0
  BY DEF kAuthFailed, kSessionFailed, kHelperFailed, ExecFailed

LEMMA HandHelper ==
    ASSUME TypeInv, HandInv, HelperRuns, "killed" \notin Faults
    PROVE  HandInv'
  <1>0. UNCHANGED <<gpc, ui, session_started>>
    BY DEF HelperRuns, uiVars
  <1>1. Selected(ui') = Selected(ui)
    BY <1>0
  <1>2. HelperStep
    BY DEF HelperRuns, HelperKilled
  <1>3. CASE ExecFails \/ CallerDenied \/ CallerAllowed
    <2>1. helper = "main" /\ helper' \in {"read", "dead"}
            /\ (helper' = "dead" => status' # 0) /\ UNCHANGED <<stdin, account, sessions>>
      BY <1>3, ExitCodes DEF ExecFails, CallerDenied, CallerAllowed, ExitWith
    <2>2. ~Begun /\ ~Begun'
      BY <2>1 DEF Begun
    <2> QED
      BY <1>0, <1>1, <2>1, <2>2 DEF HandInv
  <1>4. CASE RequestDenied \/ UserInvalid
    <2>1. helper = "read" /\ ~stdin.open /\ helper' = "dead" /\ status' # 0
            /\ UNCHANGED <<stdin, account, sessions>>
      BY <1>4, ExitCodes DEF RequestDenied, UserInvalid, RequestRead, AtEof, ExitWith
    <2>2. ~Begun /\ ~Begun'
      BY <2>1 DEF Begun
    <2> QED
      BY <1>0, <1>1, <2>1, <2>2 DEF HandInv
  <1>5. CASE UserValid
    <2>1. helper = "read" /\ ~stdin.open /\ helper' = "pam" /\ UNCHANGED <<stdin, sessions>>
            /\ stdin.data # <<>>
      BY <1>5 DEF UserValid, RequestRead, AtEof
    <2>2. gpc = "wait"
      BY <2>1 DEF HandInv, TypeInv, TypeOK
    <2>3. Head(stdin.data).user = Selected(ui)
      <3>1. stdin.data = <<[user |-> Selected(ui), password |-> ui.password]>>
        BY <2>2 DEF HandInv
      <3>2. Head(stdin.data) = [user |-> Selected(ui), password |-> ui.password]
        BY <3>1
      <3> QED
        BY <3>2
    <2>4. account' = Selected(ui)
      BY <1>5, <2>3, FoundName DEF UserValid, TypeInv, TypeOK
    <2>5. ~Begun /\ ~Begun'
      BY <2>1 DEF Begun
    <2> QED
      BY <1>0, <1>1, <2>1, <2>2, <2>4, <2>5 DEF HandInv
  <1>6. CASE AuthenticationFails \/ SessionFails
    <2>1. helper \in {"pam", "start"} /\ helper' = "dead" /\ status' # 0
            /\ UNCHANGED <<stdin, account, sessions>>
      BY <1>6, ExitCodes DEF AuthenticationFails, SessionFails, ExitWith
    <2>2. ~Begun /\ ~Begun' /\ gpc = "wait"
      BY <2>1 DEF HandInv, Begun
    <2> QED
      BY <1>0, <1>1, <2>1, <2>2 DEF HandInv
  <1>7. CASE AuthenticationSucceeds
    <2>1. helper = "pam" /\ helper' = "start" /\ UNCHANGED <<stdin, account, sessions>>
      BY <1>7 DEF AuthenticationSucceeds
    <2>2. ~Begun /\ ~Begun' /\ gpc = "wait"
      BY <2>1 DEF HandInv, Begun
    <2> QED
      BY <1>0, <1>1, <2>1, <2>2 DEF HandInv
  <1>8. CASE start_user_session
    <2>1. helper = "start" /\ helper' = "started" /\ UNCHANGED <<stdin, account>>
            /\ sessions' = Append(sessions, account)
      BY <1>8 DEF start_user_session
    <2>2. ~Begun /\ gpc = "wait" /\ account = Selected(ui) /\ ~session_started
      BY <2>1 DEF HandInv, Begun
    <2>3. sessions = <<>>
      BY <2>2 DEF HandInv
    <2>4. sessions' = <<Selected(ui)>>
      BY <2>1, <2>2, <2>3
    <2>5. Begun'
      BY <1>0, <2>1, <2>2 DEF Begun
    <2> QED
      BY <1>0, <1>1, <2>1, <2>2, <2>4, <2>5 DEF HandInv
  <1>9. CASE ReportOk
    <2>1. helper = "started" /\ helper' = "dead" /\ status' = 0
            /\ UNCHANGED <<stdin, account, sessions>>
      BY <1>9 DEF ReportOk, ExitWith
    <2>2. Begun /\ Begun' /\ gpc = "wait" /\ ~session_started
      BY <1>0, <2>1 DEF HandInv, Begun
    <2> QED
      BY <1>0, <1>1, <2>1, <2>2 DEF HandInv
  <1> QED
    BY <1>2, <1>3, <1>4, <1>5, <1>6, <1>7, <1>8, <1>9 DEF HelperStep

LEMMA HandSame ==
    ASSUME HandInv, UNCHANGED <<gpc, ui, session_started, helper, stdin, account, status, sessions>>
    PROVE  HandInv'
  <1>1. Selected(ui') = Selected(ui) /\ Begun' = Begun
    BY DEF Begun
  <1> QED
    BY <1>1 DEF HandInv

LEMMA HandStep ==
    ASSUME "killed" \notin Faults
    PROVE  TypeInv /\ HandInv /\ [Next]_vars => HandInv'
  <1> SUFFICES ASSUME TypeInv, HandInv, [Next]_vars PROVE HandInv'
    OBVIOUS
  <1>1. CASE GreeterStep
    BY <1>1, HandKeys, HandAttempt
  <1>2. CASE HelperRuns
    BY <1>2, HandHelper
  <1>3. CASE Environment
    <2>1. UNCHANGED <<gpc, ui, session_started, helper, stdin, account, status, sessions>>
      BY <1>3 DEF Environment, Press, ReleaseBuffer, CloseToplevel, CompositorExits, Unplug,
                  EditPasswd, EnvStep, uiVars, authVars
    <2> QED
      BY <2>1, HandSame
  <1>4. CASE UNCHANGED vars
    BY <1>4, HandSame DEF vars, uiVars, authVars
  <1> QED
    BY <1>1, <1>2, <1>3, <1>4 DEF Next

(* Unless a signal ends the helper after it has started the session: there  *)
(* is at most one session, it is the selected user's, and outside an        *)
(* attempt the greeter knows whether there is one; whatever keys are queued *)
(* behind the attempt and however the account list changes meanwhile.       *)
THEOREM HandoffAlwaysMatches ==
    ASSUME "killed" \notin Faults
    PROVE  Spec => []HandoffMatchesSession
  <1>1. TypeInv /\ HandInv /\ [Next]_vars => HandInv'
    BY HandStep
  <1> QED
    BY TypeInit, TypeStep, HandInit, HandImplies, <1>1, PTL DEF Spec

----------------------------------------------------------------------------
(* Whose password is in the form *)

LEMMA ModSame == ASSUME NEW k \in Nat, NEW n \in Nat, k < n PROVE k % n = k
  OBVIOUS

(* A list that is read again unchanged leaves the selection where it was. *)
LEMMA ReloadSame ==
    ASSUME NEW u, GoodUi(u), u.users = load_users
    PROVE  /\ reload_users(u) \in Ui
           /\ reload_users(u).users = u.users
           /\ reload_users(u).selected = u.selected
           /\ reload_users(u).password = u.password
  <1>1. u \in Ui /\ [u EXCEPT !.users = load_users] = u
    BY DEF GoodUi, Ui
  <1>2. Count(u) \in Nat /\ u.selected \in Nat /\ u.menu_selected \in Nat
    BY <1>1, SelectedType DEF Ui
  <1>3. CASE Count(u) = 0
    <2>1. reload_users(u) = [u EXCEPT !.selected = 0, !.menu_selected = 0]
      BY <1>1, <1>3 DEF reload_users, clamp_selection
    <2>2. u.selected = 0
      BY <1>3 DEF GoodUi
    <2> QED
      BY <1>1, <2>1, <2>2 DEF Ui
  <1>4. CASE Count(u) # 0
    <2>1. u.selected % Count(u) = u.selected /\ u.menu_selected % Count(u) = u.menu_selected
      BY <1>2, <1>4, ModSame DEF GoodUi
    <2>2. reload_users(u) = [u EXCEPT !.selected = u.selected % Count(u),
                                      !.menu_selected = u.menu_selected % Count(u)]
      BY <1>1, <1>4 DEF reload_users, clamp_selection, Ui
    <2> QED
      BY <1>1, <1>2, <2>1, <2>2 DEF Ui
  <1> QED
    BY <1>3, <1>4

LEMMA TabSame ==
    ASSUME TypeInv, LoginTab, load_users = ui.users
    PROVE  ui'.users = ui.users /\ ui'.selected = ui.selected /\ ui'.password = ui.password
  <1>1. PICK u : /\ u = reload_users(ui)
                 /\ ui' = [u EXCEPT !.menu_selected = u.selected, !.mode = "UserMenu",
                                    !.message = "", !.error = FALSE]
    BY DEF LoginTab, Show
  <1>2. u \in Ui /\ u.users = ui.users /\ u.selected = ui.selected /\ u.password = ui.password
    BY <1>1, GoodNow, ReloadSame
  <1> QED
    BY <1>1, <1>2 DEF Ui

(* Only the menu's Return and a reload touch the list or the selection, and *)
(* what they leave in the form was there or is typed for that selection.    *)
LEMMA SelectionSteps ==
    ASSUME TypeInv, [Next]_vars, ~UserMenuEnter, ~LoginTab
    PROVE  /\ ui'.users = ui.users /\ ui'.selected = ui.selected
           /\ \A n \in DOMAIN ui'.password :
                 \/ n \in DOMAIN ui.password /\ ui'.password[n] = ui.password[n]
                 \/ ui'.password[n] = Selected(ui)
  <1>1. ui \in Ui /\ ui.password \in Seq(Names \cup {NoName})
    BY DEF TypeInv, TypeOK, Ui, Password
  <1>2. CASE \/ UserMenuEscape \/ UserMenuMove \/ PowerMenuEscape \/ PowerMenuMove
             \/ run_power_action
    <2>1. \/ ui' = [ui EXCEPT !.mode = "Login"]
          \/ \E k : ui' = [ui EXCEPT !.menu_selected = k]
          \/ \E k : ui' = [ui EXCEPT !.power_selection = k]
      BY <1>2 DEF UserMenuEscape, UserMenuMove, PowerMenuEscape, PowerMenuMove,
         run_power_action, Show
    <2> QED
      BY <1>1, <2>1 DEF Ui
  <1>3. CASE LoginEscape \/ LoginNoUsers
    BY <1>1, <1>3 DEF LoginEscape, LoginNoUsers, Show, Ui
  <1>4. CASE LoginBackSpace
    <2>1. PICK w : /\ w = IF ui.password = <<>> THEN ui.password
                          ELSE SubSeq(ui.password, 1, Len(ui.password) - 1)
                   /\ ui' = [ui EXCEPT !.password = w, !.message = "PAM AUTHENTICATION",
                                       !.error = FALSE]
      BY <1>1, <1>4 DEF LoginBackSpace, Show, Ui
    <2>2. ui'.users = ui.users /\ ui'.selected = ui.selected /\ ui'.password = w
      BY <1>1, <2>1 DEF Ui
    <2>3. \A n \in DOMAIN w : n \in DOMAIN ui.password /\ w[n] = ui.password[n]
      BY <1>1, <2>1
    <2> QED
      BY <2>2, <2>3
  <1>5. CASE handle_text
    <2>1. CASE ui' = ui
      BY <2>1
    <2>2. CASE ui' = [ui EXCEPT !.password = Append(ui.password, Selected(ui)),
                                !.message = "PAM AUTHENTICATION", !.error = FALSE]
      <3>1. /\ ui'.users = ui.users /\ ui'.selected = ui.selected
            /\ ui'.password = Append(ui.password, Selected(ui))
        BY <1>1, <2>2 DEF Ui
      <3> QED
        BY <1>1, <3>1, AppendAt
    <2> QED
      BY <1>1, <1>5, <2>1, <2>2 DEF handle_text, Show, Nothing, Ui
  <1>6. CASE ForkHelper
    BY <1>1, <1>6 DEF ForkHelper, Attempting, Ui
  <1>7. CASE ForkFails \/ LoginSucceeds \/ LoginFails
    <2>1. ui'.users = ui.users /\ ui'.selected = ui.selected /\ ui'.password = <<>>
      BY <1>1, <1>7 DEF ForkFails, LoginSucceeds, LoginFails, Failed, Ui
    <2>2. DOMAIN <<>> = {}
      OBVIOUS
    <2> QED
      BY <2>1, <2>2
  <1>8. CASE \/ LoopExit \/ LoopTurn \/ PollTimeout \/ DispatchFails \/ DispatchDone
             \/ WriteRequest \/ WriteBroken
    BY <1>8 DEF LoopExit, LoopTurn, PollTimeout, DispatchFails, DispatchDone, WriteRequest,
                WriteBroken
  <1>9. CASE \/ surface_configure \/ toplevel_close \/ seat_capabilities \/ keyboard_keymap
             \/ buffer_release \/ KeyUnmapped \/ KeySwallowed \/ LoginOther
    BY <1>9 DEF surface_configure, toplevel_close, seat_capabilities, keyboard_keymap,
                buffer_release, KeyUnmapped, KeySwallowed, LoginOther, Nothing
  <1>10. CASE HelperRuns \/ Environment \/ UNCHANGED vars
    BY <1>10 DEF HelperRuns, Environment, Press, ReleaseBuffer, CloseToplevel, CompositorExits,
                 Unplug, EditPasswd, EnvStep, uiVars, vars
  <1> QED
    BY <1>2, <1>3, <1>4, <1>5, <1>6, <1>7, <1>8, <1>9, <1>10 DEF Next, GreeterStep

(* The menu's Return empties the form when it selects a user. *)
LEMMA EnterOwns == ASSUME TypeInv, UserMenuEnter, Owned(ui) PROVE Owned(ui')
  <1>1. ui \in Ui
    BY DEF TypeInv, TypeOK
  <1>2. ui' = ui \/ ui'.password = <<>>
    BY <1>1 DEF UserMenuEnter, Show, Nothing, Ui
  <1>3. DOMAIN <<>> = {}
    OBVIOUS
  <1> QED
    BY <1>2, <1>3 DEF Owned

(* The password in the form was typed for the user who is selected, however *)
(* often the account list changes: choosing another user drops what was     *)
(* typed, and only a Tab that reads a changed list can leave the password   *)
(* with somebody else (UserMenuEnter, LoginTab, handle_text).               *)
THEOREM PasswordAlwaysForSelected == Spec => PasswordForSelectedUser
  <1>1. TypeInv /\ [Next]_vars => [Owned(ui) => Owned(ui') \/ ReadsChangedList]_vars
    <2> SUFFICES ASSUME TypeInv, [Next]_vars, Owned(ui), ~ReadsChangedList PROVE Owned(ui')
      OBVIOUS
    <2>1. CASE UserMenuEnter
      BY <2>1, EnterOwns
    <2>2. CASE LoginTab
      <3>1. ui'.users = ui.users /\ ui'.selected = ui.selected /\ ui'.password = ui.password
        BY <2>2, TabSame DEF ReadsChangedList
      <3> QED
        BY <3>1, SelectedKept DEF Owned
    <2>3. CASE ~UserMenuEnter /\ ~LoginTab
      BY <2>3, SelectionSteps, SelectedKept DEF Owned
    <2> QED
      BY <2>1, <2>2, <2>3
  <1> QED
    BY <1>1, TypeInit, TypeStep, PTL DEF Spec, PasswordForSelectedUser

(* The user for whom the form would be sent changes only by Return in the   *)
(* user menu, or by a Tab that reads a changed list: no clamp, failed       *)
(* attempt or other key selects another one, and a list read again          *)
(* unchanged does not either.                                               *)
UserChangesInMenu ==
    [][Selected(ui') # Selected(ui) => UserMenuEnter \/ ReadsChangedList]_vars

(* UserChangesInMenu holds of every behaviour: that Tab is the one way to   *)
(* what EscClosesWithoutChanging excludes.                                  *)
THEOREM UserAlwaysChosenInMenu == Spec => UserChangesInMenu
  <1>1. TypeInv /\ [Next]_vars
          => [Selected(ui') # Selected(ui) => UserMenuEnter \/ ReadsChangedList]_vars
    <2> SUFFICES ASSUME TypeInv, [Next]_vars, ~UserMenuEnter, ~ReadsChangedList
                 PROVE  Selected(ui') = Selected(ui)
      OBVIOUS
    <2>1. CASE LoginTab
      BY <2>1, TabSame, SelectedKept DEF ReadsChangedList
    <2>2. CASE ~LoginTab
      BY <2>2, SelectionSteps, SelectedKept
    <2> QED
      BY <2>1, <2>2
  <1> QED
    BY <1>1, TypeInit, TypeStep, PTL DEF Spec, UserChangesInMenu

----------------------------------------------------------------------------
(* An attempt, whatever ends the helper *)

(* What the greeter writes to the helper. *)
FormRequest == <<[user |-> Selected(ui), password |-> ui.password]>>

(* Greeter and helper never wait for each other: a greeter that waits has a *)
(* helper to reap, a helper that reads waits only for a greeter that is     *)
(* about to write and close the pipe, and at end of file it has the whole   *)
(* request and no other (authenticate_and_start_session, read_request).     *)
RequestsArrive ==
    /\ gpc = "wait" => helper # "none"
    /\ helper = "read" => (stdin.open <=> gpc = "write")
    /\ AtEof => stdin.data = FormRequest

(* A session is started only during an attempt and for the user whose name  *)
(* is in the form, also when a signal ends the helper at any point or the   *)
(* account list changes (main of zero-greeter-auth, start_user_session).    *)
SessionsAsSelected ==
    [][sessions' # sessions => gpc = "wait" /\ sessions' = Append(sessions, Selected(ui))]_vars

(* HandInv without what a signal breaks. *)
PipeInv ==
    /\ gpc \in {"top", "poll", "dispatch"} => helper = "none"
    /\ gpc = "exited" => helper \in {"none", "dead"}
    /\ gpc = "write" => stdin.open /\ helper \in {"main", "read", "dead"}
    /\ gpc = "wait" => helper # "none" /\ ~stdin.open /\ stdin.data = FormRequest
    /\ helper \in {"pam", "start", "started"} => account = Selected(ui)

LEMMA PipeImplies == TypeInv /\ PipeInv => RequestsArrive
  BY DEF TypeInv, TypeOK, PipeInv, RequestsArrive, AtEof

LEMMA PipeGreeter == ASSUME TypeInv, PipeInv, GreeterStep PROVE PipeInv'
  <1>1. CASE ~ (ForkHelper \/ WriteRequest \/ WriteBroken \/ LoginSucceeds \/ LoginFails)
    BY <1>1, DialogSteps DEF PipeInv, authVars
  <1>2. CASE ForkHelper
    BY <1>2 DEF ForkHelper, PipeInv
  <1>3. CASE WriteRequest
    <2>1. /\ gpc = "write" /\ gpc' = "wait" /\ helper' = helper /\ helper # "dead"
          /\ ui' = ui
          /\ stdin' = [data |-> FormRequest, open |-> FALSE]
      BY <1>3 DEF WriteRequest, FormRequest
    <2>2. FormRequest' = FormRequest /\ ~stdin'.open /\ stdin'.data = FormRequest
      BY <2>1 DEF FormRequest, Selected
    <2> QED
      BY <2>1, <2>2 DEF PipeInv
  <1>4. CASE WriteBroken
    BY <1>4 DEF WriteBroken, PipeInv, authVars
  <1>5. CASE LoginSucceeds \/ LoginFails
    BY <1>5 DEF LoginSucceeds, LoginFails, Reaped, PipeInv
  <1> QED
    BY <1>1, <1>2, <1>3, <1>4, <1>5

LEMMA PipeHelper ==
    ASSUME TypeInv, PipeInv, HelperRuns
    PROVE  /\ PipeInv'
           /\ sessions' # sessions =>
                gpc = "wait" /\ sessions' = Append(sessions, Selected(ui))
  <1>1. /\ gpc' = gpc /\ FormRequest' = FormRequest /\ Selected(ui') = Selected(ui)
        /\ gpc \in {"top", "poll", "dispatch", "write", "wait", "exited"}
    BY DEF HelperRuns, uiVars, FormRequest, Selected, TypeInv, TypeOK
  <1>2. CASE \/ ExecFails \/ CallerDenied \/ RequestDenied \/ UserInvalid
             \/ AuthenticationFails \/ SessionFails \/ ReportOk \/ HelperKilled
    <2>1. /\ helper \notin {"none", "dead"} /\ helper' = "dead"
          /\ UNCHANGED <<stdin, account, sessions>>
      BY <1>2 DEF ExecFails, CallerDenied, RequestDenied, UserInvalid, RequestRead, AtEof,
         AuthenticationFails, SessionFails, ReportOk, HelperKilled, ExitWith
    <2> QED
      BY <1>1, <2>1 DEF PipeInv
  <1>3. CASE CallerAllowed \/ AuthenticationSucceeds
    <2>1. /\ \/ helper = "main" /\ helper' = "read"
             \/ helper = "pam" /\ helper' = "start"
          /\ UNCHANGED <<stdin, account, sessions>>
      BY <1>3 DEF CallerAllowed, AuthenticationSucceeds
    <2> QED
      BY <1>1, <2>1 DEF PipeInv
  <1>4. CASE UserValid
    <2>1. /\ helper = "read" /\ ~stdin.open /\ helper' = "pam"
          /\ UNCHANGED <<stdin, sessions>> /\ stdin.data # <<>>
      BY <1>4 DEF UserValid, RequestRead, AtEof
    <2>2. gpc = "wait" /\ stdin.data = FormRequest
      BY <1>1, <2>1 DEF PipeInv
    <2>3. Head(stdin.data).user = Selected(ui)
      <3>1. Head(stdin.data) = [user |-> Selected(ui), password |-> ui.password]
        BY <2>2 DEF FormRequest
      <3> QED
        BY <3>1
    <2>4. account' = Selected(ui)
      BY <1>4, <2>3, FoundName DEF UserValid, TypeInv, TypeOK
    <2> QED
      BY <1>1, <2>1, <2>2, <2>4 DEF PipeInv
  <1>5. CASE start_user_session
    <2>1. /\ helper = "start" /\ helper' = "started" /\ UNCHANGED <<stdin, account>>
          /\ sessions' = Append(sessions, account)
      BY <1>5 DEF start_user_session
    <2>2. gpc = "wait" /\ account = Selected(ui)
      BY <1>1, <2>1 DEF PipeInv
    <2> QED
      BY <1>1, <2>1, <2>2 DEF PipeInv
  <1> QED
    BY <1>2, <1>3, <1>4, <1>5 DEF HelperRuns, HelperStep

LEMMA PipeStep ==
    ASSUME TypeInv, PipeInv, [Next]_vars
    PROVE  /\ PipeInv'
           /\ sessions' # sessions =>
                gpc = "wait" /\ sessions' = Append(sessions, Selected(ui))
  <1>1. CASE GreeterStep
    <2>1. sessions' = sessions
      <3>1. CASE ~ (ForkHelper \/ WriteRequest \/ WriteBroken \/ LoginSucceeds \/ LoginFails)
        BY <1>1, <3>1, DialogSteps DEF authVars
      <3>2. CASE ForkHelper \/ WriteRequest \/ WriteBroken \/ LoginSucceeds \/ LoginFails
        BY <3>2 DEF ForkHelper, WriteRequest, WriteBroken, LoginSucceeds, LoginFails, Reaped,
           authVars
      <3> QED
        BY <3>1, <3>2
    <2> QED
      BY <1>1, <2>1, PipeGreeter
  <1>2. CASE HelperRuns
    BY <1>2, PipeHelper
  <1>3. CASE Environment \/ UNCHANGED vars
    <2>1. UNCHANGED <<gpc, ui, helper, stdin, account, sessions>>
      BY <1>3 DEF Environment, Press, ReleaseBuffer, CloseToplevel, CompositorExits, Unplug,
                  EditPasswd, EnvStep, uiVars, authVars, vars
    <2>2. FormRequest' = FormRequest /\ Selected(ui') = Selected(ui)
      BY <2>1 DEF FormRequest, Selected
    <2> QED
      BY <2>1, <2>2 DEF PipeInv
  <1> QED
    BY <1>1, <1>2, <1>3 DEF Next

LEMMA PipeAlways == Spec => [](TypeInv /\ PipeInv)
  <1>1. Init => PipeInv
    BY DEF Init, AuthInit, PipeInv
  <1>2. TypeInv /\ PipeInv /\ [Next]_vars => PipeInv'
    BY PipeStep
  <1> QED
    BY TypeInit, TypeStep, <1>1, <1>2, PTL DEF Spec

(* RequestsArrive holds in every state: what AttemptEnds says, except that  *)
(* the processes run.                                                       *)
THEOREM RequestsAlwaysArrive == Spec => []RequestsArrive
  BY PipeImplies, PipeAlways, PTL

(* SessionsAsSelected holds of every behaviour, with any faults: what is    *)
(* left of HandoffMatchesSession when a signal may end the helper.          *)
THEOREM SessionsAlwaysAsSelected == Spec => SessionsAsSelected
  <1>1. TypeInv /\ PipeInv /\ [Next]_vars
          => [sessions' # sessions =>
                gpc = "wait" /\ sessions' = Append(sessions, Selected(ui))]_vars
    BY PipeStep
  <1> QED
    BY PipeAlways, <1>1, PTL DEF Spec, SessionsAsSelected

=============================================================================
