----------------------------- MODULE MCCatalogue -----------------------------
(* A catalogue of three products for TLC: two agree in each attribute, and the *)
(* prices are the slider's first two positions.                                *)
EXTENDS Catalogue

CONSTANTS dress, saree, shawl, silk, cotton, ladies, kids, red

MCProductlist == <<saree, dress, shawl>>
MCRate == [p \in Products |-> IF p = shawl THEN 1 ELSE 2]
MCRating == [p \in Products |-> IF p = dress THEN 2 ELSE 4]
MCFabric == [p \in Products |-> IF p = dress THEN cotton ELSE silk]
MCCategory == [p \in Products |-> IF p = dress THEN ladies ELSE kids]
MCColorsOf == [p \in Products |-> IF p = shawl THEN {} ELSE {red}]
MCMatch == [t \in Texts |-> {dress, shawl}]
=============================================================================
