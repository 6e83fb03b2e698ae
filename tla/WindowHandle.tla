----------------------------- MODULE WindowHandle -----------------------------
(***************************************************************************)
(* The public handle of the library (include/scx-manager/                  *)
(* schedext-window.hpp, src/schedext-window.cpp): a raw pointer to the     *)
(* window, copied by the defaulted moves and deleted by every destructor.  *)
(* A window may also have a parent widget, which deletes its children.     *)
(* What a program does after it has used a deleted window is not followed. *)
(***************************************************************************)
CONSTANTS
  Handle,    \* scxctl::SchedExtWindow objects
  Impl,      \* impl::SchedExtWindow objects, in the order they are created
  Parent,    \* QWidgets of the embedding program
  Null

VARIABLES
  m_impl,    \* what each living handle points to
  dead,      \* handles that have been destroyed
  parent,    \* the parent of each window that has been created
  visible,   \* windows that are shown
  freedBy    \* who has deleted each window

vars == <<m_impl, dead, parent, visible, freedBy>>

Alive == DOMAIN m_impl
Created == DOMAIN parent
Freed == {w \in Created : freedBy[w] # {}}

Nothing == [none \in {} |-> Null]

Init ==
  /\ m_impl = Nothing /\ dead = {}
  /\ parent = Nothing /\ visible = {} /\ freedBy = Nothing

\* A function with one more point, or a new value at it.
With(f, arg, value) ==
  [a \in DOMAIN f \cup {arg} |-> IF a = arg THEN value ELSE f[a]]

New(h) == h \in Handle \ (Alive \cup dead)
Usable(h) == h \in Alive /\ m_impl[h] \notin Freed

\* The constructor, also by way of create_schedext_window, whose result is
\* built in place.
Construct(h, w, p) ==
  /\ New(h) /\ w \in Impl \ Created
  /\ m_impl' = With(m_impl, h, w)
  /\ parent' = With(parent, w, p)
  /\ freedBy' = With(freedBy, w, {})
  /\ UNCHANGED <<dead, visible>>

\* The defaulted move constructor copies the pointer and leaves it in `from`.
MoveConstruct(h, from) ==
  /\ New(h) /\ from \in Alive
  /\ m_impl' = With(m_impl, h, m_impl[from])
  /\ UNCHANGED <<dead, parent, visible, freedBy>>

\* The defaulted move assignment also forgets what h pointed to.
MoveAssign(h, from) ==
  /\ h \in Alive /\ from \in Alive \ {h}
  /\ m_impl' = With(m_impl, h, m_impl[from])
  /\ UNCHANGED <<dead, parent, visible, freedBy>>

\* The destructor deletes the window; a window leaves its parent as it goes.
Destroy(h) ==
  /\ h \in Alive
  /\ m_impl' = [a \in Alive \ {h} |-> m_impl[a]]
  /\ dead' = dead \cup {h}
  /\ freedBy' = [freedBy EXCEPT ![m_impl[h]] = @ \cup {h}]
  /\ parent' = [parent EXCEPT ![m_impl[h]] = Null]
  /\ visible' = visible \ {m_impl[h]}

Show(h) ==
  /\ Usable(h)
  /\ visible' = visible \cup {m_impl[h]}
  /\ UNCHANGED <<m_impl, dead, parent, freedBy>>

Hide(h) ==
  /\ Usable(h)
  /\ visible' = visible \ {m_impl[h]}
  /\ UNCHANGED <<m_impl, dead, parent, freedBy>>

\* QWidget::setParent also hides the widget.
SetParent(h, p) ==
  /\ Usable(h)
  /\ parent' = [parent EXCEPT ![m_impl[h]] = p]
  /\ visible' = visible \ {m_impl[h]}
  /\ UNCHANGED <<m_impl, dead, freedBy>>

\* A parent widget goes and takes its children along.
ParentGoes(p) ==
  LET children == {w \in Created : parent[w] = p}
  IN /\ children # {}
     /\ freedBy' = [w \in Created |-> freedBy[w] \cup IF w \in children THEN {p} ELSE {}]
     /\ parent' = [w \in Created |-> IF w \in children THEN Null ELSE parent[w]]
     /\ visible' = visible \ children
     /\ UNCHANGED <<m_impl, dead>>

Next ==
  \/ \E h \in Handle, w \in Impl, p \in Parent \cup {Null} : Construct(h, w, p)
  \/ \E h, from \in Handle : MoveConstruct(h, from) \/ MoveAssign(h, from)
  \/ \E h \in Handle : Destroy(h) \/ Show(h) \/ Hide(h)
  \/ \E h \in Handle, p \in Parent \cup {Null} : SetParent(h, p)
  \/ \E p \in Parent : ParentGoes(p)

Spec == Init /\ [][Next]_vars

-----------------------------------------------------------------------------
\* Of all the handles a window has been moved through, one deletes it
\* (schedext-window.hpp:66: "Non-copyable pimpl; movable").
OneHandleDeletes ==
  \A w \in Created : \A h, other \in freedBy[w] \cap Handle : h = other
=============================================================================
