---- MODULE MCCatalogue ----
EXTENDS Catalogue
====
