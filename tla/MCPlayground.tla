---------------------------- MODULE MCPlayground ----------------------------
EXTENDS Playground

CONSTANTS a, b

OneModel == <<a>>
=============================================================================
