------------------------ MODULE TransportationRates ------------------------
(***************************************************************************)
(* shared/constants/transportationRates.ts: the fares that a submission    *)
(* without an amount is given, one way.  The names of the cities are       *)
(* written without blanks.                                                 *)
(***************************************************************************)
EXTENDS Integers

DEFAULT_TANGO_FARE == 150
DEFAULT_TRAIN_FARE == 300

Fare(destinations, amount) == [destinations |-> destinations, amount |-> amount]

DEVELOPMENT_TRANSPORTATION_RATES == {
    Fare({"Cairo", "Giza", "Qalyubia"}, 100), Fare({"Monufia"}, 130),
    Fare({"Sharqia", "Fayoum"}, 140), Fare({"Suez", "Ismailia", "Gharbia"}, 150),
    Fare({"Dakahlia", "BeniSuef"}, 160), Fare({"KafrElSheikh"}, 170),
    Fare({"PortSaid", "Damietta", "Beheira"}, 180), Fare({"Alexandria", "Minya"}, 200),
    Fare({"Assiut"}, 250), Fare({"Sohag"}, 280), Fare({"Qena"}, 300),
    Fare({"Luxor"}, 350), Fare({"Aswan"}, 400)}

TRAIN_FARES == {
    Fare({"Fayoum"}, 900), Fare({"BeniSuef"}, 140), Fare({"Minya", "Assiut"}, 500),
    Fare({"Sohag"}, 710), Fare({"Qena", "NagHammadi", "Luxor"}, 770), Fare({"Edfu"}, 880),
    Fare({"KomOmbo", "Aswan"}, 1000), Fare({"Benha"}, 90), Fare({"Qewaisna"}, 100),
    Fare({"BerketElSabaa"}, 110), Fare({"Monufia", "Menouf"}, 120),
    Fare({"Sharqia", "Zagazig"}, 150), Fare({"Gharbia", "Tanta"}, 160),
    Fare({"KafrElZayat"}, 185), Fare({"Suez"}, 220), Fare({"Beheira", "Damanhur"}, 235),
    Fare({"Dakahlia", "Mansoura", "KafrElSheikh", "Ismailia"}, 240),
    Fare({"Damietta"}, 300), Fare({"Alexandria"}, 310), Fare({"PortSaid"}, 330)}

FareTo(city, tariff, default) ==
    IF \E f \in tariff : city \in f.destinations
    THEN (CHOOSE f \in tariff : city \in f.destinations).amount
    ELSE default

TangoFare(city) == FareTo(city, DEVELOPMENT_TRANSPORTATION_RATES, DEFAULT_TANGO_FARE)

TrainFare(city) == FareTo(city, TRAIN_FARES, DEFAULT_TRAIN_FARE)
=============================================================================
