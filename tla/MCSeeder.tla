------------------------------- MODULE MCSeeder -------------------------------
EXTENDS Seeder

CONSTANTS a1, a2, a3, none

ThreeAddrs == {a1, a2, a3}
=============================================================================
