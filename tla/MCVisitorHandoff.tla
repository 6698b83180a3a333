-------------------------- MODULE MCVisitorHandoff --------------------------
EXTENDS VisitorHandoff
CONSTANTS a, b
MCServer == {a, b}
MCOne == {a}
=============================================================================
